---- MODULE Spec2Model ----
(***************************************************************************)
(* papermind: the Analysis Client (papermind/claude/client.py).            *)
(*                                                                         *)
(* ClaudeClient.analyze_paper validates the paper text, calls the          *)
(* endpoint through _call_with_retry (bounded attempts, exponential        *)
(* backoff between them) and, on success, adds the response's token        *)
(* counts to the client's usage counters.  The endpoint and time.sleep are *)
(* the environment: every outcome of client.messages.create is chosen      *)
(* nondeterministically, and both are observed the way the unit tests      *)
(* observe them (a call count and the list of sleep arguments).            *)
(*                                                                         *)
(* papermind: the Record Store Access Layer (papermind/zotero/database.py). *)
(*                                                                         *)
(* Every ZoteroDatabase operation runs inside the retry_on_lock wrapper    *)
(* and opens its own connection through _connection_context.  The SQLite   *)
(* engine is the environment: opening a connection, executing a statement  *)
(* and committing each either succeed or raise one of the engine's errors. *)
(***************************************************************************)
EXTENDS Integers, Sequences, FiniteSets, TLC

(* ------------------------------ bounds --------------------------------- *)

\* largest max_retries a client is constructed with
MaxRetriesCfg == 4

\* successful analyze_paper calls counted before the counters must be reset
MaxCalls == 2

\* longest run of one character handed to estimate_tokens
MaxEstLen == 9

\* largest counter value a client starts from when estimate_tokens is applied
MaxStart == 2

\* the retry_delay values a client is constructed with (whole time-units)
RetryDelays == {1, 3}

(* ------------------------------- texts --------------------------------- *)

\* characters str.strip() removes, and one that it keeps
Whitespace == {" ", "\n"}

Chars == Whitespace \cup {"a"}

\* the paper texts handed to analyze_paper: empty, whitespace only, and texts
\* with a character that stays, bare and wrapped in whitespace
PaperTexts ==
    {<<>>, <<" ">>, <<"\n", " ">>, <<"a">>, <<" ", "a", "\n">>}

Repeat(c, n) == [i \in 1..n |-> c]

\* the texts of test_estimate_tokens, and runs of every length up to MaxEstLen
EstimateTexts ==
    {Repeat(c, n) : c \in {"a", " "}, n \in 0..MaxEstLen}
        \cup {<<"t", "e", "s", "t">>, Repeat("a", 100)}

RECURSIVE LStrip(_)
LStrip(s) ==
    IF s = <<>> THEN <<>>
    ELSE IF Head(s) \in Whitespace THEN LStrip(Tail(s))
    ELSE s

RECURSIVE RStrip(_)
RStrip(s) ==
    IF s = <<>> THEN <<>>
    ELSE IF s[Len(s)] \in Whitespace THEN RStrip(SubSeq(s, 1, Len(s) - 1))
    ELSE s

\* str.strip()
Strip(s) == RStrip(LStrip(s))

\* faulty variant: the test without strip()
IsEmptyText_NoStrip(s) == s = <<>>

\* not paper_text or not paper_text.strip()
IsEmptyText(s) == s = <<>> \/ Strip(s) = <<>>

RECURSIVE Pow2(_)
Pow2(n) == IF n <= 0 THEN 1 ELSE 2 * Pow2(n - 1)

(* ----------------------------- exceptions ------------------------------ *)

\* The exception classes the client meets, each with its base class.
BaseOf(cls) ==
    CASE cls = "RateLimitError"     -> "APIStatusError"
      [] cls = "APIStatusError"     -> "APIError"
      [] cls = "APIConnectionError" -> "APIError"
      [] cls = "APIError"           -> "Exception"
      [] cls = "ValueError"         -> "Exception"
      [] cls = "TypeError"          -> "Exception"
      [] cls = "RuntimeError"       -> "Exception"
      [] OTHER                      -> "Exception"

RECURSIVE IsSubclass(_, _)
IsSubclass(cls, base) ==
    IF cls = base THEN TRUE
    ELSE IF cls = "Exception" THEN FALSE
    ELSE IsSubclass(BaseOf(cls), base)

\* An exception object: its class, whether it has a status_code attribute,
\* the attribute, and the number of the endpoint invocation that raised it
\* (0 for exceptions the client raises itself).
Exc(cls, has, code, seq) ==
    [cls |-> cls, has_status_code |-> has, status_code |-> code, seq |-> seq]

NoError == Exc("None", FALSE, 0, 0)

StatusCodes == {400, 499, 500}

\* what the seq-th call of client.messages.create can raise
EndpointErrors(seq) ==
    {Exc("RateLimitError", TRUE, 429, seq),
     Exc("APIConnectionError", FALSE, 0, seq),
     Exc("APIError", FALSE, 0, seq),
     Exc("RuntimeError", FALSE, 0, seq)}
        \cup {Exc("APIStatusError", TRUE, c, seq) : c \in StatusCodes}

(* ------------------------------ responses ------------------------------ *)

TextBlock(t) == [has_text |-> TRUE, text |-> t]

OtherBlock == [has_text |-> FALSE, text |-> <<>>]

\* two kinds of response body: a single text block; text, non-text, text
Variants ==
    {[model |-> "claude-sonnet-4-20250514", stop_reason |-> "end_turn",
      content |-> <<TextBlock(<<"x">>)>>],
     [model |-> "claude-opus-4-20250514", stop_reason |-> "max_tokens",
      content |-> <<TextBlock(<<"x">>), OtherBlock, TextBlock(<<"y">>)>>]}

\* the token counts a response reports: <<input_tokens, output_tokens>>
TokenCounts == {<<1000, 500>>, <<1, 0>>, <<0, 2>>}

Responses ==
    {[model |-> v.model, stop_reason |-> v.stop_reason, content |-> v.content,
      input_tokens |-> t[1], output_tokens |-> t[2]] :
        v \in Variants, t \in TokenCounts}

NoResponse ==
    [model |-> "", stop_reason |-> "", content |-> <<>>,
     input_tokens |-> 0, output_tokens |-> 0]

\* the outcome of one call of client.messages.create
Returned(r) == [ok |-> TRUE, response |-> r, error |-> NoError]

Raised(e) == [ok |-> FALSE, response |-> NoResponse, error |-> e]

NoOutcome == [ok |-> FALSE, response |-> NoResponse, error |-> NoError]

CreateOutcomes(seq) ==
    {Returned(r) : r \in Responses} \cup {Raised(e) : e \in EndpointErrors(seq)}

(* ------------------------------- state --------------------------------- *)

VARIABLES
    max_retries,          \* self.max_retries
    retry_delay,          \* self.retry_delay
    total_input_tokens,   \* self.total_input_tokens
    total_output_tokens,  \* self.total_output_tokens
    total_requests,       \* self.total_requests
    pc,                   \* "idle", or where analyze_paper stands: "create", "sleep"
    attempt,              \* loop variable of _call_with_retry
    last_error,           \* local last_error of _call_with_retry
    delay,                \* local delay of _call_with_retry
    ret,                  \* the last operation called, its arguments and how it ended
    call_count,           \* messages.create.call_count within the current call
    sleep_calls,          \* arguments of time.sleep within the current call
    trace,                \* order of "create" and "sleep" within the current call
    last_created,         \* outcome of the latest messages.create
    all_transient,        \* every create of the current call so far raised rate-limit, connection or 5xx
    pre,                  \* the usage counters when the current analyze_paper began
    since_reset           \* successful analyze_paper calls since the last reset: count and token sums

VARIABLES
    db,                   \* the committed content of zotero.sqlite
    stack,                \* the ZoteroDatabase calls in progress, outermost first
    db_ret,               \* the last ZoteroDatabase call made by the caller and how it ended
    db_pre,               \* the committed content when that call began
    open_conns,           \* connections of this process that are open
    added                 \* the add_note calls that returned, oldest first

dbvars == <<db, stack, db_ret, db_pre, open_conns, added>>

VARIABLES
    connects              \* what a search_items call has cost so far
                          \* (kept only where the cost is measured)

VARIABLES
    vault,                \* the Zotero directory tree of the Obsidian vault
    sync,                 \* the sync or sync-notes command in progress and its locals
    sync_ret              \* the last sync function called and how it ended

syncvars == <<vault, sync, sync_ret>>

clientvars ==
    <<max_retries, retry_delay, total_input_tokens, total_output_tokens,
      total_requests, pc, attempt, last_error, delay, ret, call_count,
      sleep_calls, trace, last_created, all_transient, pre, since_reset>>

vars ==
    <<max_retries, retry_delay, total_input_tokens, total_output_tokens,
      total_requests, pc, attempt, last_error, delay, ret, call_count,
      sleep_calls, trace, last_created, all_transient, pre, since_reset,
      db, stack, db_ret, db_pre, open_conns, added,
      connects, vault, sync, sync_ret>>

config == <<max_retries, retry_delay>>

counters == <<total_requests, total_input_tokens, total_output_tokens>>

loop == <<attempt, last_error, delay>>

mocks == <<call_count, sleep_calls, trace, last_created, all_transient>>

Usage(n, i, o) == [requests |-> n, input_tokens |-> i, output_tokens |-> o]

NoValue == [none |-> TRUE]

Ret(op, args, kind, exc, value) ==
    [op |-> op, args |-> args, kind |-> kind, exc |-> exc, value |-> value]

(* ------------------------ record store: data ---------------------------- *)

\* retry_on_lock(max_retries=5, initial_delay=0.1, backoff_factor=2.0):
\* delays are counted in units of 0.1 s, the initial delay
DbMaxRetries == 5

DbInitialDelay == 1

DbBackoffFactor == 2

\* notes add_note may have committed before it is called again
MaxNotes == 1

UpperLetters ==
    <<"A", "B", "C", "D", "E", "F", "G", "H", "I", "J", "K", "L", "M",
      "N", "O", "P", "Q", "R", "S", "T", "U", "V", "W", "X", "Y", "Z">>

LowerLetters ==
    <<"a", "b", "c", "d", "e", "f", "g", "h", "i", "j", "k", "l", "m",
      "n", "o", "p", "q", "r", "s", "t", "u", "v", "w", "x", "y", "z">>

LowerOfUpper == [c \in {UpperLetters[i] : i \in 1..26} |->
                    LowerLetters[CHOOSE i \in 1..26 : UpperLetters[i] = c]]

LowerChar(c) == IF c \in DOMAIN LowerOfUpper THEN LowerOfUpper[c] ELSE c

\* str.lower()
Lower(s) == [i \in 1..Len(s) |-> LowerChar(s[i])]

\* sub in s
Contains(s, sub) ==
    \E i \in 0..(Len(s) - Len(sub)) : \A k \in 1..Len(sub) : s[i + k] = sub[k]

MsgLocked == <<"d", "a", "t", "a", "b", "a", "s", "e", " ", "i", "s", " ",
      "l", "o", "c", "k", "e", "d">>

MsgBusy == <<"D", "a", "t", "a", "b", "a", "s", "e", " ", "B", "U", "S",
      "Y">>

MsgNoTable ==
    <<"n", "o", " ", "s", "u", "c", "h", " ", "t", "a", "b", "l",
      "e">>

MsgUnique ==
    <<"U", "N", "I", "Q", "U", "E", " ", "c", "o", "n", "s", "t",
      "r", "a", "i", "n", "t", " ", "f", "a", "i", "l", "e", "d">>

MsgFailedToAdd == <<"F", "a", "i", "l", "e", "d", " ", "t", "o", " ", "a", "d",
      "d", " ", "n", "o", "t", "e", ":", " ">>

MsgParentNotFound == <<"P", "a", "r", "e", "n", "t", " ", "i", "t", "e", "m", " ",
      "n", "o", "t", " ", "f", "o", "u", "n", "d">>

\* the first sentence of the guidance of ZoteroDatabaseLockError, which the
\* original error follows
MsgCloseZotero ==
    <<"T", "h", "e", " ", "Z", "o", "t", "e", "r", "o", " ", "d",
      "a", "t", "a", "b", "a", "s", "e", " ", "i", "s", " ", "l",
      "o", "c", "k", "e", "d", ".", " ">>

WordLocked == <<"l", "o", "c", "k", "e", "d">>

WordBusy == <<"b", "u", "s", "y">>

\* sqlite3's exception classes and the two others the layer raises
DbBaseOf(cls) ==
    CASE cls = "sqlite3.OperationalError" -> "sqlite3.DatabaseError"
      [] cls = "sqlite3.IntegrityError"   -> "sqlite3.DatabaseError"
      [] cls = "sqlite3.DatabaseError"    -> "sqlite3.Error"
      [] cls = "sqlite3.Error"            -> "Exception"
      [] cls = "ZoteroDatabaseLockError"  -> "Exception"
      [] cls = "ValueError"               -> "Exception"
      [] OTHER                            -> "Exception"

RECURSIVE DbIsSubclass(_, _)
DbIsSubclass(cls, base) ==
    IF cls = base THEN TRUE
    ELSE IF cls = "Exception" THEN FALSE
    ELSE DbIsSubclass(DbBaseOf(cls), base)

\* an exception: its class, str(e), and the class of the engine error it
\* stems from ("" when it stems from none)
DbExc(cls, msg, origin) == [cls |-> cls, msg |-> msg, origin |-> origin]

NoDbError == DbExc("None", <<>>, "")

\* what the engine can raise at a step
EngineErrors ==
    {DbExc("sqlite3.OperationalError", MsgLocked, "sqlite3.OperationalError"),
     DbExc("sqlite3.OperationalError", MsgBusy, "sqlite3.OperationalError"),
     DbExc("sqlite3.OperationalError", MsgNoTable, "sqlite3.OperationalError"),
     DbExc("sqlite3.IntegrityError", MsgUnique, "sqlite3.IntegrityError")}

\* the outcome of one step of the engine
StepOk == [ok |-> TRUE, error |-> NoDbError]

StepFails(e) == [ok |-> FALSE, error |-> e]

StepOutcomes == {StepOk} \cup {StepFails(e) : e \in EngineErrors}

\* the library before any note is added: two articles, the second
\* soft-deleted, and a book
InitialItems ==
    (1 :> [typeName |-> "journalArticle", libraryID |-> 1, dateAdded |-> 1,
           dateModified |-> 3, key |-> <<"K", 0, 1>>,
           title |-> <<"A", "b">>, creators |-> << <<(<<"c">>), (<<"D">>)>> >>,
           tags |-> {}, collections |-> {}]) @@
    (2 :> [typeName |-> "journalArticle", libraryID |-> 1, dateAdded |-> 2,
           dateModified |-> 4, key |-> <<"K", 0, 2>>,
           title |-> <<"b">>, creators |-> <<>>,
           tags |-> {}, collections |-> {}]) @@
    (3 :> [typeName |-> "book", libraryID |-> 1, dateAdded |-> 2,
           dateModified |-> 3, key |-> <<"K", 0, 3>>,
           title |-> <<"B", "c">>, creators |-> <<>>,
           tags |-> {}, collections |-> {}])

InitialStore ==
    [items |-> InitialItems, deletedItems |-> {2}, itemNotes |-> {}]

\* item ids handed to the operations: an article, the soft-deleted article,
\* the first note add_note creates, and an id no row has
ArgIds == {1, 2, 4, 9}

\* datetime.now() at the insert, as <<dateAdded, dateModified>>
Times == {<<5, 5>>, <<5, 6>>}

\* an optional string argument
None == [given |-> FALSE, text |-> <<>>]

Some(t) == [given |-> TRUE, text |-> t]

\* note_title: omitted, empty, and a title
NoteTitles == {None, Some(<<>>), Some(<<"M", "y">>)}

\* note_content
NoteContents == {<<"b">>}

DefaultTitle == <<"A", "I", " ", "A", "n", "a", "l", "y", "s", "i", "s">>

\* search_items queries and the limits of search_items and list_items
Queries == {<<"B">>, <<"z">>}

Limits == {1, 50}

(* ---------------------- ZoteroDatabase.__init__ ------------------------- *)

\* the arguments of a call; the ones an operation does not take keep these
\* values
DbArgs(item_id, content, title, query, limit) ==
    [item_id |-> item_id, content |-> content, title |-> title,
     query |-> query, limit |-> limit, collection |-> None, tags |-> <<>>]

NoArgs == DbArgs(0, <<>>, None, <<>>, 0)

\* how a call ended, with what the caller's test doubles saw of it: the
\* invocations of the wrapped function, the time.sleep arguments, the engine
\* lock errors raised, whether every invocation ended in one, and the
\* exception the last invocation raised with the step that raised it
DbRet(op, args, kind, exc, value, calls, sleeps, busy, all_locked, func_exc, at) ==
    [op |-> op, args |-> args, kind |-> kind, exc |-> exc, value |-> value,
     calls |-> calls, sleeps |-> sleeps, busy |-> busy,
     all_locked |-> all_locked, func_exc |-> func_exc, at |-> at]

\* conn = None
NoConn ==
    [open |-> FALSE, readonly |-> TRUE, new_items |-> <<>>, new_notes |-> {}]

\* __init__ validates the path and opens no connection
NoConnects == [attempts |-> 0, get_items |-> 0]

DbStart ==
    /\ connects = NoConnects
    /\ db = InitialStore
    /\ stack = <<>>
    /\ db_ret = DbRet("__init__", NoArgs, "return", NoDbError, NoValue,
                      0, <<>>, 0, TRUE, NoDbError, "")
    /\ db_pre = InitialStore
    /\ open_conns = 0
    /\ added = <<>>

(* ------------------------------ the vault ------------------------------- *)

\* a vault directory in which sync has not run: no Zotero directory
EmptyVault ==
    [base |-> FALSE, repo |-> FALSE, collections |-> FALSE,
     papers |-> <<>>, views |-> {}]

\* the statistics a sync function returns, before one has returned
NoStats == [none |-> TRUE]

\* no command in progress; runs counts the commands begun, adds the add_note
\* calls of the command in progress
SyncIdle ==
    [pc |-> "idle", op |-> "", dry_run |-> FALSE, overwrite |-> FALSE,
     items |-> <<>>, idx |-> 1, collections |-> <<>>, notes_to_sync |-> <<>>,
     stats |-> NoStats, runs |-> 0, adds |-> 0]

NoSyncRet ==
    [op |-> "__init__", dry_run |-> FALSE, overwrite |-> FALSE,
     kind |-> "return", stats |-> NoStats, adds |-> 0,
     vault_pre |-> EmptyVault, db_pre |-> InitialStore,
     prev |-> [op |-> "", dry_run |-> FALSE, overwrite |-> FALSE,
               clean |-> FALSE]]

\* a call of a sync function, with the vault and the library it began on and
\* the call before it; clean says that call returned without errors
SyncRet(op, dry_run, overwrite, kind, stats, adds) ==
    [op |-> op, dry_run |-> dry_run, overwrite |-> overwrite, kind |-> kind,
     stats |-> stats, adds |-> adds, vault_pre |-> vault, db_pre |-> db,
     prev |-> [op |-> sync_ret.op, dry_run |-> sync_ret.dry_run,
               overwrite |-> sync_ret.overwrite,
               clean |-> /\ sync_ret.kind = "return"
                         /\ sync_ret.stats # NoStats
                         /\ sync_ret.stats["errors"] = <<>>]]

SyncStart ==
    /\ vault = EmptyVault
    /\ sync = SyncIdle
    /\ sync_ret = NoSyncRet

(* ---------------------- ClaudeClient.__init__ --------------------------- *)

Init ==
    /\ max_retries \in 0..MaxRetriesCfg
    /\ retry_delay \in RetryDelays
    /\ total_input_tokens = 0
    /\ total_output_tokens = 0
    /\ total_requests = 0
    /\ pc = "idle"
    /\ attempt = 0
    /\ last_error = NoError
    /\ delay = 0
    /\ ret = Ret("__init__", NoValue, "return", NoError, NoValue)
    /\ call_count = 0
    /\ sleep_calls = <<>>
    /\ trace = <<>>
    /\ last_created = NoOutcome
    /\ all_transient = TRUE
    /\ pre = Usage(0, 0, 0)
    /\ since_reset = Usage(0, 0, 0)
    /\ DbStart
    /\ SyncStart

(* ------------------- ClaudeClient._call_with_retry ---------------------- *)

\* faulty variant: the clause for APIError tried before the two for its
\* subclasses
ExceptClause_ApiErrorFirst(e) ==
    IF IsSubclass(e.cls, "APIError") THEN "APIError" ELSE "uncaught"

\* the except clause that catches e: the first whose class e is an instance of
ExceptClause(e) ==
    IF IsSubclass(e.cls, "RateLimitError") THEN "RateLimitError"
    ELSE IF IsSubclass(e.cls, "APIConnectionError") THEN "APIConnectionError"
    ELSE IF IsSubclass(e.cls, "APIError") THEN "APIError"
    ELSE "uncaught"

\* faulty variant: the lower bound excluded
IsClientStatus_Above400(e) ==
    e.has_status_code /\ 400 < e.status_code /\ e.status_code < 500

\* hasattr(e, 'status_code') and 400 <= e.status_code < 500
IsClientStatus(e) ==
    e.has_status_code /\ 400 <= e.status_code /\ e.status_code < 500

\* faulty variant: one retry too many
HasAttemptsLeft_OffByOne(a) == a < max_retries

\* attempt < self.max_retries - 1
HasAttemptsLeft(a) == a < max_retries - 1

\* faulty variant: the exponent counted from 1
BackoffDelay_FromOne(a) == retry_delay * Pow2(a + 1)

\* self.retry_delay * (2 ** attempt)
BackoffDelay(a) == retry_delay * Pow2(a)

\* whether the handler of e re-raises at once, whatever the attempt
RaisesAtOnce(e) ==
    \/ ExceptClause(e) = "uncaught"
    \/ ExceptClause(e) = "APIError" /\ IsClientStatus(e)

\* faulty variant: a loop that runs for attempt = max_retries as well
InRange_Inclusive(a) == a <= max_retries

\* for attempt in range(self.max_retries)
InRange(a) == a < max_retries

\* faulty variant: the first failure kept and raised in place of the current one
Reraise_First(e) == IF last_error = NoError THEN e ELSE last_error

\* a bare raise inside the except clause handling e: e itself propagates
Reraise(e) == e

(* --------------------- ClaudeClient.analyze_paper ----------------------- *)

RECURSIVE AnalysisText(_)
AnalysisText(content) ==
    IF content = <<>> THEN <<>>
    ELSE (IF Head(content).has_text THEN Head(content).text ELSE <<>>)
             \o AnalysisText(Tail(content))

\* faulty variant: the two token counts exchanged
ResultDict_Swapped(r) ==
    [analysis |-> AnalysisText(r.content),
     model |-> r.model,
     input_tokens |-> r.output_tokens,
     output_tokens |-> r.input_tokens,
     finish_reason |-> r.stop_reason]

\* the dict analyze_paper returns
ResultDict(r) ==
    [analysis |-> AnalysisText(r.content),
     model |-> r.model,
     input_tokens |-> r.input_tokens,
     output_tokens |-> r.output_tokens,
     finish_reason |-> r.stop_reason]

\* faulty variant: one request counted for every attempt of the call
UsageAfter_PerAttempt(r) ==
    [requests |-> total_requests + call_count + 1,
     input_tokens |-> total_input_tokens + r.input_tokens,
     output_tokens |-> total_output_tokens + r.output_tokens]

\* the usage counters after a response: the three += statements
UsageAfter(r) ==
    Usage(total_requests + 1,
          total_input_tokens + r.input_tokens,
          total_output_tokens + r.output_tokens)

AnalyzeArgs(text) == [paper_text |-> text]

\* raise ValueError("Paper text cannot be empty")
EmptyTextError == Exc("ValueError", FALSE, 0, 0)

\* raise last_error with last_error = None: Python raises TypeError instead
RaiseNoneError == Exc("TypeError", FALSE, 0, 0)

\* analyze_paper is entered: validation, and the loop's first range test
AnalyzePaper(text) ==
    /\ pc = "idle"
    /\ total_requests < MaxCalls
    /\ pre' = Usage(total_requests, total_input_tokens, total_output_tokens)
    /\ call_count' = 0
    /\ sleep_calls' = <<>>
    /\ trace' = <<>>
    /\ last_created' = NoOutcome
    /\ all_transient' = TRUE
    /\ IF IsEmptyText(text)
       THEN /\ ret' = Ret("analyze_paper", AnalyzeArgs(text), "raise",
                          EmptyTextError, NoValue)
            /\ pc' = "idle"
            /\ UNCHANGED loop
       ELSE /\ attempt' = 0
            /\ last_error' = NoError
            /\ delay' = 0
            /\ IF InRange(0)
               THEN /\ pc' = "create"
                    /\ ret' = Ret("analyze_paper", AnalyzeArgs(text), "running",
                                  NoError, NoValue)
               ELSE /\ pc' = "idle"
                    /\ ret' = Ret("analyze_paper", AnalyzeArgs(text), "raise",
                                  RaiseNoneError, NoValue)
    /\ UNCHANGED <<config, counters, since_reset>>
    /\ UNCHANGED dbvars
    /\ UNCHANGED syncvars
    /\ UNCHANGED connects

\* the failure classes of the design: RateLimited, ConnectionFailed,
\* ServerError (5xx), ClientError (4xx), Other
Classify(e) ==
    IF IsSubclass(e.cls, "RateLimitError") THEN "RateLimited"
    ELSE IF IsSubclass(e.cls, "APIConnectionError") THEN "ConnectionFailed"
    ELSE IF e.has_status_code /\ e.status_code \in 500..599 THEN "ServerError"
    ELSE IF e.has_status_code /\ e.status_code \in 400..499 THEN "ClientError"
    ELSE "Other"

\* rate-limit, connection failure or 5xx: the failures the design calls transient
IsTransient(e) ==
    Classify(e) \in {"RateLimited", "ConnectionFailed", "ServerError"}

\* one call of self.client.messages.create and what the loop body does with
\* its outcome: return the response (analyze_paper then counts it and builds
\* its result), re-raise, or compute the delay of the coming sleep
CreateMessage(out) ==
    /\ pc = "create"
    /\ call_count' = call_count + 1
    /\ trace' = Append(trace, "create")
    /\ last_created' = out
    /\ all_transient' =
           IF out.ok THEN all_transient
           ELSE all_transient /\ IsTransient(out.error)
    /\ IF out.ok
       THEN /\ total_requests' = UsageAfter(out.response).requests
            /\ total_input_tokens' = UsageAfter(out.response).input_tokens
            /\ total_output_tokens' = UsageAfter(out.response).output_tokens
            /\ since_reset' =
                   Usage(since_reset.requests + 1,
                         since_reset.input_tokens + out.response.input_tokens,
                         since_reset.output_tokens + out.response.output_tokens)
            /\ ret' = [ret EXCEPT !.kind = "return",
                                  !.value = ResultDict(out.response)]
            /\ pc' = "idle"
            /\ UNCHANGED loop
       ELSE /\ UNCHANGED <<counters, since_reset>>
            /\ IF RaisesAtOnce(out.error)
               THEN /\ ret' = [ret EXCEPT !.kind = "raise",
                                          !.exc = Reraise(out.error)]
                    /\ pc' = "idle"
                    /\ UNCHANGED loop
               ELSE /\ last_error' = out.error
                    /\ attempt' = attempt
                    /\ IF HasAttemptsLeft(attempt)
                       THEN /\ delay' = BackoffDelay(attempt)
                            /\ pc' = "sleep"
                            /\ ret' = ret
                       ELSE /\ delay' = delay
                            /\ ret' = [ret EXCEPT !.kind = "raise",
                                                  !.exc = Reraise(out.error)]
                            /\ pc' = "idle"
    /\ UNCHANGED <<config, sleep_calls, pre>>
    /\ UNCHANGED dbvars
    /\ UNCHANGED syncvars
    /\ UNCHANGED connects

\* time.sleep(delay); continue: the next iteration, or the raise after the loop
Sleep ==
    /\ pc = "sleep"
    /\ sleep_calls' = Append(sleep_calls, delay)
    /\ trace' = Append(trace, "sleep")
    /\ attempt' = attempt + 1
    /\ IF InRange(attempt + 1)
       THEN /\ pc' = "create"
            /\ ret' = ret
       ELSE /\ pc' = "idle"
            /\ ret' = [ret EXCEPT !.kind = "raise", !.exc = last_error]
    /\ UNCHANGED <<config, counters, last_error, delay, call_count,
                   last_created, all_transient, pre, since_reset>>
    /\ UNCHANGED dbvars
    /\ UNCHANGED syncvars
    /\ UNCHANGED connects

(* ------------- estimate_tokens, get_usage_stats, reset ------------------ *)

\* faulty variant: rounding up
TokenEstimate_RoundUp(text) == (Len(text) + 3) \div 4

\* len(text) // 4
TokenEstimate(text) == Len(text) \div 4

EstimateTokens(text) ==
    /\ pc = "idle"
    /\ ret' = Ret("estimate_tokens", [text |-> text], "return", NoError,
                  [tokens |-> TokenEstimate(text)])
    /\ UNCHANGED <<config, counters, loop, mocks, pre, since_reset, pc>>
    /\ UNCHANGED dbvars
    /\ UNCHANGED syncvars
    /\ UNCHANGED connects

\* the dict get_usage_stats returns
UsageStats ==
    [total_requests |-> total_requests,
     total_input_tokens |-> total_input_tokens,
     total_output_tokens |-> total_output_tokens,
     total_tokens |-> total_input_tokens + total_output_tokens]

GetUsageStats ==
    /\ pc = "idle"
    /\ ret' = Ret("get_usage_stats", NoValue, "return", NoError, UsageStats)
    /\ UNCHANGED <<config, counters, loop, mocks, pre, since_reset, pc>>
    /\ UNCHANGED dbvars
    /\ UNCHANGED syncvars
    /\ UNCHANGED connects

\* faulty variant: the output counter left as it is
ResetValues_KeepOutput ==
    [requests |-> 0, input_tokens |-> 0, output_tokens |-> total_output_tokens]

\* the counters after reset_usage_stats
ResetValues == Usage(0, 0, 0)

ResetUsageStats ==
    /\ pc = "idle"
    /\ total_requests' = ResetValues.requests
    /\ total_input_tokens' = ResetValues.input_tokens
    /\ total_output_tokens' = ResetValues.output_tokens
    /\ since_reset' = Usage(0, 0, 0)
    /\ ret' = Ret("reset_usage_stats", NoValue, "return", NoError, NoValue)
    /\ UNCHANGED <<config, loop, mocks, pre, pc>>
    /\ UNCHANGED dbvars
    /\ UNCHANGED syncvars
    /\ UNCHANGED connects

(* --------------------------- specification ------------------------------ *)

\* The client: analyze_paper step by step, and the usage accessors.
Next ==
    \/ \E text \in PaperTexts : AnalyzePaper(text)
    \/ \E out \in CreateOutcomes(call_count + 1) : CreateMessage(out)
    \/ Sleep
    \/ GetUsageStats
    \/ ResetUsageStats

Spec == Init /\ [][Next]_vars

\* estimate_tokens, a pure function of its argument, applied to every text of
\* EstimateTexts on clients with arbitrary counter values.
InitEstimate ==
    /\ max_retries \in 0..MaxRetriesCfg
    /\ retry_delay \in RetryDelays
    /\ total_input_tokens \in 0..MaxStart
    /\ total_output_tokens \in 0..MaxStart
    /\ total_requests \in 0..MaxStart
    /\ pc = "idle"
    /\ attempt = 0
    /\ last_error = NoError
    /\ delay = 0
    /\ ret = Ret("__init__", NoValue, "return", NoError, NoValue)
    /\ call_count = 0
    /\ sleep_calls = <<>>
    /\ trace = <<>>
    /\ last_created = NoOutcome
    /\ all_transient = TRUE
    /\ pre = Usage(total_requests, total_input_tokens, total_output_tokens)
    /\ since_reset = Usage(total_requests, total_input_tokens, total_output_tokens)
    /\ DbStart
    /\ SyncStart

NextEstimate == \E text \in EstimateTexts : EstimateTokens(text)

SpecEstimate == InitEstimate /\ [][NextEstimate]_vars

(* ============================ ZoteroDatabase ============================= *)

(* ----------------------------- retry_on_lock ---------------------------- *)

\* the locals of an operation; the ones it does not have keep these values
NoLocals ==
    [library_id |-> 0, note_item_id |-> 0, ids |-> <<>>, idx |-> 1,
     phase |-> "cond", acc |-> <<>>]

\* one call of a decorated operation: wrapper() entered, delay and last_error
\* set, and func invoked for attempt 0
Frame(op, args) ==
    [op |-> op, args |-> args, attempt |-> 0, delay |-> DbInitialDelay,
     last_error |-> NoDbError, pc |-> "connect", conn |-> NoConn,
     loc |-> NoLocals, calls |-> 1, sleeps |-> <<>>, busy |-> 0,
     all_locked |-> TRUE]

Top == stack[Len(stack)]

Running(op, at) == stack # <<>> /\ Top.op = op /\ Top.pc = at

\* 'locked' in error_msg or 'busy' in error_msg, error_msg = str(e).lower()
IsLockMessage(msg) ==
    LET error_msg == Lower(msg)
    IN  Contains(error_msg, WordLocked) \/ Contains(error_msg, WordBusy)

\* attempt < max_retries
HasRetriesLeft(a) == a < DbMaxRetries

\* delay *= backoff_factor
NextDelay_Constant(d) == d

NextDelay(d) == d * DbBackoffFactor

\* raise ZoteroDatabaseLockError(...) from e
LockError(e) ==
    DbExc("ZoteroDatabaseLockError", MsgCloseZotero \o e.msg, e.origin)

\* e stems from a lock/busy error of the engine
EngineLock(e) ==
    e.origin = "sqlite3.OperationalError" /\ IsLockMessage(e.msg)

\* what the test doubles record when func raises e
NoteFailure(f, e) ==
    LET lock == EngineLock(e)
    IN  [f EXCEPT !.busy = @ + (IF lock THEN 1 ELSE 0),
                  !.all_locked = @ /\ lock]

\* the except clauses of wrapper for an exception e raised by func: go on to
\* time.sleep, or raise
WrapperExcept_RetryAll(f, e) ==
    IF DbIsSubclass(e.cls, "sqlite3.OperationalError")
    THEN IF HasRetriesLeft(f.attempt)
         THEN [kind |-> "sleep", exc |-> NoDbError,
               frame |-> [f EXCEPT !.last_error = e, !.pc = "sleep"]]
         ELSE [kind |-> "raise", exc |-> LockError(e),
               frame |-> [f EXCEPT !.last_error = e]]
    ELSE [kind |-> "raise", exc |-> e, frame |-> f]

\* faulty variant: the message decides, whatever the class of the exception
WrapperExcept_LockByMessage(f, e) ==
    IF IsLockMessage(e.msg)
    THEN IF HasRetriesLeft(f.attempt)
         THEN [kind |-> "sleep", exc |-> NoDbError,
               frame |-> [f EXCEPT !.last_error = e, !.pc = "sleep"]]
         ELSE [kind |-> "raise", exc |-> LockError(e),
               frame |-> [f EXCEPT !.last_error = e]]
    ELSE [kind |-> "raise", exc |-> e, frame |-> f]

WrapperExcept(f, e) ==
    IF DbIsSubclass(e.cls, "sqlite3.OperationalError")
    THEN IF IsLockMessage(e.msg)
         THEN IF HasRetriesLeft(f.attempt)
              THEN [kind |-> "sleep", exc |-> NoDbError,
                    frame |-> [f EXCEPT !.last_error = e, !.pc = "sleep"]]
              ELSE [kind |-> "raise", exc |-> LockError(e),
                    frame |-> [f EXCEPT !.last_error = e]]
         ELSE [kind |-> "raise", exc |-> e,
               frame |-> [f EXCEPT !.last_error = e]]
    ELSE [kind |-> "raise", exc |-> e, frame |-> f]

RetOf(f, kind, exc, value, func_exc, at) ==
    DbRet(f.op, f.args, kind, exc, value, f.calls, f.sleeps, f.busy,
          f.all_locked, func_exc, at)

\* func of the innermost call raises e: its wrapper sleeps or raises, and what
\* it raises is raised by func of the call around it
RECURSIVE Unwind(_, _, _)
Unwind(stk, e, at) ==
    LET n == Len(stk)
        w == WrapperExcept(NoteFailure(stk[n], e), e)
    IN  IF w.kind = "sleep"
        THEN [done |-> FALSE, stack |-> [stk EXCEPT ![n] = w.frame],
              ret |-> db_ret]
        ELSE IF n = 1
        THEN [done |-> TRUE, stack |-> <<>>,
              ret |-> RetOf(w.frame, "raise", w.exc, NoValue, e, at)]
        ELSE Unwind(SubSeq(stk, 1, n - 1), w.exc, at)

(* -------------------------- _connection_context ------------------------- *)

\* sqlite3.connect for the operation: read-only by default, writable for
\* add_note
IsReadonly(op) == op # "add_note"

Connected(op) ==
    [open |-> TRUE, readonly |-> IsReadonly(op), new_items |-> <<>>,
     new_notes |-> {}]

\* conn.rollback()
Rollback(conn) == [conn EXCEPT !.new_items = <<>>, !.new_notes = {}]

\* conn.close(); what was not committed is lost
Close(conn) == [Rollback(conn) EXCEPT !.open = FALSE]

\* except Exception: rollback a writable connection, raise; finally: close
ExitOnException_Leak(conn) ==
    IF conn.open /\ ~conn.readonly THEN Rollback(conn) ELSE conn

ExitOnException(conn) ==
    IF conn.open
    THEN Close(IF ~conn.readonly THEN Rollback(conn) ELSE conn)
    ELSE conn

\* finally: close
ExitOnReturn(conn) == IF conn.open THEN Close(conn) ELSE conn

OpenCount(conn) == IF conn.open THEN 1 ELSE 0

\* func of the innermost call raises e inside (or on entering) the with block
FuncRaises(e) ==
    LET f == Top
        g == [f EXCEPT !.conn = ExitOnException(f.conn)]
        u == Unwind([stack EXCEPT ![Len(stack)] = g], e, f.pc)
    IN  /\ stack' = u.stack
        /\ db_ret' = u.ret
        /\ open_conns' = open_conns - OpenCount(f.conn) + OpenCount(g.conn)

\* func of the innermost call returns v, leaving the with block if it is
\* still inside it; a call made by search_items hands v to its comprehension
Hydrated(o, v) ==
    IF o.loc.phase = "cond"
    THEN IF v # NoValue
         THEN [o EXCEPT !.loc.phase = "value"]
         ELSE [o EXCEPT !.loc.idx = @ + 1]
    ELSE [o EXCEPT !.loc.acc = Append(@, v), !.loc.idx = @ + 1,
                   !.loc.phase = "cond"]

FuncReturns(v) ==
    LET n == Len(stack)
        f == Top
        g == [f EXCEPT !.conn = ExitOnReturn(f.conn), !.all_locked = FALSE]
    IN  /\ IF n = 1
           THEN /\ stack' = <<>>
                /\ db_ret' = RetOf(g, "return", NoDbError, v, NoDbError, "")
           ELSE /\ stack' = [SubSeq(stack, 1, n - 1) EXCEPT
                                ![n - 1] = Hydrated(stack[n - 1], v)]
                /\ db_ret' = db_ret
        /\ open_conns' = open_conns - OpenCount(f.conn) + OpenCount(g.conn)

SetTop(f) == [stack EXCEPT ![Len(stack)] = f]

\* the caller calls a decorated operation
DbCall(op, args) ==
    /\ stack = <<>>
    /\ stack' = <<Frame(op, args)>>
    /\ db_ret' = RetOf(Frame(op, args), "none", NoDbError, NoValue,
                       NoDbError, "")
    /\ db_pre' = db
    /\ UNCHANGED <<db, open_conns, added>>
    /\ UNCHANGED clientvars

\* conn = self._get_connection() or self._get_write_connection();
\* cursor = conn.cursor()
FirstStatement(op) ==
    CASE op = "add_note"     -> "parent_check"
      [] op = "get_notes"    -> "select_notes"
      [] op = "get_item"     -> "select_item"
      [] op = "search_items" -> "search_query"
      [] op = "list_items"   -> "list_query"

ConnectStep ==
    /\ stack # <<>>
    /\ Top.pc = "connect"
    /\ \E out \in StepOutcomes :
        IF out.ok
        THEN /\ stack' = SetTop([Top EXCEPT !.conn = Connected(Top.op),
                                            !.pc = FirstStatement(Top.op)])
             /\ open_conns' = open_conns + 1
             /\ db_ret' = db_ret
        ELSE FuncRaises(out.error)
    /\ UNCHANGED <<db, db_pre, added>>
    /\ UNCHANGED clientvars
    /\ UNCHANGED syncvars

Connect == ConnectStep /\ UNCHANGED connects

\* the same step where the connection attempts are counted
CountedConnect ==
    /\ ConnectStep
    /\ connects' = [connects EXCEPT !.attempts = @ + 1]

\* time.sleep(delay); delay *= backoff_factor; continue
DbSleep ==
    /\ stack # <<>>
    /\ Top.pc = "sleep"
    /\ LET f == Top
           g == [f EXCEPT !.sleeps = Append(@, f.delay),
                          !.delay = NextDelay(f.delay),
                          !.attempt = f.attempt + 1]
       IN  IF f.attempt + 1 <= DbMaxRetries
           THEN \* func(*args, **kwargs) is called again and starts afresh
                /\ stack' = SetTop([g EXCEPT !.pc = "connect", !.calls = @ + 1,
                                             !.loc = NoLocals])
                /\ db_ret' = db_ret
           ELSE \* if last_error: raise last_error
                /\ stack' = SubSeq(stack, 1, Len(stack) - 1)
                /\ db_ret' = RetOf(g, "raise", f.last_error, NoValue, f.last_error,
                                "")
    /\ UNCHANGED <<db, db_pre, open_conns, added>>
    /\ UNCHANGED clientvars
    /\ UNCHANGED syncvars
    /\ UNCHANGED connects

(* -------------------------------- add_note ------------------------------ *)

\* what statements on conn see: the committed rows and its own pending ones
Visible(conn) ==
    [db EXCEPT !.items = conn.new_items @@ @,
               !.itemNotes = @ \cup conn.new_notes]

\* conn.commit()
Applied_ItemsOnly(store, conn) ==
    [store EXCEPT !.items = conn.new_items @@ @]

Applied(store, conn) ==
    [store EXCEPT !.items = conn.new_items @@ @,
                  !.itemNotes = @ \cup conn.new_notes]

\* the committed store after a step of add_note: the INSERTs run in the
\* transaction sqlite3 opens before them, which conn.commit() ends
StoreAfter_Autocommit(store, conn, at) == Applied(store, conn)

StoreAfter(store, conn, at) ==
    IF at = "commit" THEN Applied(store, conn) ELSE store

\* WHERE itemID = ? AND itemID NOT IN (SELECT itemID FROM deletedItems)
ParentRow_IgnoreDeleted(view, parent_item_id) ==
    parent_item_id \in DOMAIN view.items

ParentRow(view, parent_item_id) ==
    /\ parent_item_id \in DOMAIN view.items
    /\ parent_item_id \notin view.deletedItems

\* raise ValueError(f"Parent item {parent_item_id} not found")
ParentNotFound == DbExc("ValueError", MsgParentNotFound, "")

\* except Exception as e: raise sqlite3.Error(f"Failed to add note: {e}")
FailedToAddNote(e) ==
    DbExc("sqlite3.Error", MsgFailedToAdd \o e.msg, e.origin)

MaxOf(S) == CHOOSE m \in S : \A x \in S : x <= m

\* cursor.lastrowid after the INSERT INTO items
LastRowId(view) == MaxOf(DOMAIN view.items) + 1

\* hashlib.md5(f"{parent_item_id}{time.time()}")...[:8].upper(): a function
\* of the parent and the time
NoteKey(parent_item_id, now) == <<"K", parent_item_id, now>>

\* INSERT INTO items (itemTypeID, libraryID, key, dateAdded, dateModified)
NoteItemRow_TouchParent(view, parent_item_id, library_id, t) ==
    (LastRowId(view) :>
        [typeName |-> "note", libraryID |-> library_id, dateAdded |-> t[1],
         dateModified |-> t[2], key |-> NoteKey(parent_item_id, t[1]),
         title |-> <<>>, creators |-> <<>>,
         tags |-> {}, collections |-> {}]) @@
    (parent_item_id :>
        [view.items[parent_item_id] EXCEPT !.dateModified = t[2]])

NoteItemRow(view, parent_item_id, library_id, t) ==
    LastRowId(view) :>
        [typeName |-> "note", libraryID |-> library_id, dateAdded |-> t[1],
         dateModified |-> t[2], key |-> NoteKey(parent_item_id, t[1]),
         title |-> <<>>, creators |-> <<>>,
         tags |-> {}, collections |-> {}]

\* title = note_title or 'AI Analysis'
TitleOf_Given(note_title) ==
    IF note_title.given THEN note_title.text ELSE DefaultTitle

TitleOf(note_title) ==
    IF note_title.given /\ note_title.text # <<>>
    THEN note_title.text
    ELSE DefaultTitle

\* text_content = f"{title}\n\n{note_content}"
TextContent(note_title, note_content) ==
    TitleOf(note_title) \o <<"\n", "\n">> \o note_content

\* INSERT INTO itemNotes (itemID, parentItemID, note)
NoteRow(note_item_id, parent_item_id, text_content) ==
    [itemID |-> note_item_id, parentItemID |-> parent_item_id,
     note |-> text_content]

AddNote(parent_item_id, note_content, note_title) ==
    /\ Cardinality(db.itemNotes) < MaxNotes
    /\ DbCall("add_note",
              DbArgs(parent_item_id, note_content, note_title, <<>>, 0))
    /\ UNCHANGED syncvars
    /\ UNCHANGED connects

\* SELECT itemID, libraryID FROM items ...; if not parent_row: raise
ParentCheck ==
    /\ Running("add_note", "parent_check")
    /\ \E out \in StepOutcomes :
        IF ~out.ok
        THEN FuncRaises(out.error)
        ELSE IF ~ParentRow(Visible(Top.conn), Top.args.item_id)
        THEN FuncRaises(ParentNotFound)
        ELSE /\ stack' = SetTop([Top EXCEPT
                    !.loc.library_id =
                        Visible(Top.conn).items[Top.args.item_id].libraryID,
                    !.pc = "note_type"])
             /\ UNCHANGED <<db_ret, open_conns>>
    /\ UNCHANGED <<db, db_pre, added>>
    /\ UNCHANGED clientvars
    /\ UNCHANGED syncvars
    /\ UNCHANGED connects

\* SELECT itemTypeID FROM itemTypes WHERE typeName = 'note'
SelectNoteType ==
    /\ Running("add_note", "note_type")
    /\ \E out \in StepOutcomes :
        IF ~out.ok
        THEN FuncRaises(FailedToAddNote(out.error))
        ELSE /\ stack' = SetTop([Top EXCEPT !.pc = "insert_item"])
             /\ UNCHANGED <<db_ret, open_conns>>
    /\ UNCHANGED <<db, db_pre, added>>
    /\ UNCHANGED clientvars
    /\ UNCHANGED syncvars
    /\ UNCHANGED connects

\* INSERT INTO items ...; note_item_id = cursor.lastrowid
InsertItem ==
    /\ Running("add_note", "insert_item")
    /\ \E out \in StepOutcomes, t \in Times :
        IF ~out.ok
        THEN /\ FuncRaises(FailedToAddNote(out.error))
             /\ db' = db
        ELSE LET f == Top
                 view == Visible(f.conn)
                 conn == [f.conn EXCEPT !.new_items =
                             NoteItemRow(view, f.args.item_id,
                                         f.loc.library_id, t) @@ @]
             IN  /\ stack' = SetTop([f EXCEPT
                        !.conn = conn,
                        !.loc.note_item_id = LastRowId(view),
                        !.pc = "insert_note"])
                 /\ db' = StoreAfter(db, conn, "insert_item")
                 /\ UNCHANGED <<db_ret, open_conns>>
    /\ UNCHANGED <<db_pre, added>>
    /\ UNCHANGED clientvars
    /\ UNCHANGED syncvars
    /\ UNCHANGED connects

\* INSERT INTO itemNotes ...
InsertNote ==
    /\ Running("add_note", "insert_note")
    /\ \E out \in StepOutcomes :
        IF ~out.ok
        THEN /\ FuncRaises(FailedToAddNote(out.error))
             /\ db' = db
        ELSE LET f == Top
                 conn == [f.conn EXCEPT !.new_notes = @ \cup
                             {NoteRow(f.loc.note_item_id, f.args.item_id,
                                      TextContent(f.args.title,
                                                  f.args.content))}]
             IN  /\ stack' = SetTop([f EXCEPT !.conn = conn, !.pc = "commit"])
                 /\ db' = StoreAfter(db, conn, "insert_note")
                 /\ UNCHANGED <<db_ret, open_conns>>
    /\ UNCHANGED <<db_pre, added>>
    /\ UNCHANGED clientvars
    /\ UNCHANGED syncvars
    /\ UNCHANGED connects

\* conn.commit(); return note_item_id
Commit ==
    /\ Running("add_note", "commit")
    /\ \E out \in StepOutcomes :
        IF ~out.ok
        THEN /\ FuncRaises(FailedToAddNote(out.error))
             /\ UNCHANGED <<db, added>>
        ELSE /\ db' = StoreAfter(db, Top.conn, "commit")
             /\ added' = Append(added, [id |-> Top.loc.note_item_id,
                                        args |-> Top.args])
             /\ FuncReturns(Top.loc.note_item_id)
    /\ UNCHANGED db_pre
    /\ UNCHANGED clientvars
    /\ UNCHANGED syncvars
    /\ UNCHANGED connects

(* ------------------------------- get_notes ------------------------------ *)

\* the sequences of the elements of S, each once, in descending order of key
Descending(S, key) ==
    {q \in [1..Cardinality(S) -> S] :
        /\ \A i, j \in 1..Cardinality(S) : i # j => q[i] # q[j]
        /\ \A i, j \in 1..Cardinality(S) : i < j => key[q[i]] >= key[q[j]]}

\* the rows of the notes of a parent that are not soft-deleted
NoteRows(view, parent_item_id) ==
    {n \in view.itemNotes :
        /\ n.parentItemID = parent_item_id
        /\ n.itemID \in DOMAIN view.items
        /\ n.itemID \notin view.deletedItems}

NoteDict(view, n) ==
    [itemID |-> n.itemID, key |-> view.items[n.itemID].key,
     dateAdded |-> view.items[n.itemID].dateAdded,
     dateModified |-> view.items[n.itemID].dateModified,
     content |-> n.note]

GetNotes(parent_item_id) ==
    /\ DbCall("get_notes", DbArgs(parent_item_id, <<>>, None, <<>>, 0))
    /\ UNCHANGED syncvars
    /\ UNCHANGED connects

\* SELECT ... FROM itemNotes n JOIN items i ... ORDER BY i.dateModified DESC;
\* return notes
SelectNotes ==
    /\ Running("get_notes", "select_notes")
    /\ \E out \in StepOutcomes :
        IF ~out.ok
        THEN FuncRaises(out.error)
        ELSE LET view == Visible(Top.conn)
                 found == NoteRows(view, Top.args.item_id)
                 Modified == [n \in found |->
                                 view.items[n.itemID].dateModified]
             IN  \E rows \in Descending(found, Modified) :
                    FuncReturns([i \in 1..Len(rows) |-> NoteDict(view, rows[i])])
    /\ UNCHANGED <<db, db_pre, added>>
    /\ UNCHANGED clientvars
    /\ UNCHANGED syncvars
    /\ UNCHANGED connects

(* ------------------------------- get_item ------------------------------- *)

\* WHERE itemID = ? AND itemID NOT IN (SELECT itemID FROM deletedItems)
ItemRow_IgnoreDeleted(view, item_id) == item_id \in DOMAIN view.items

ItemRow(view, item_id) ==
    /\ item_id \in DOMAIN view.items
    /\ item_id \notin view.deletedItems

\* f"{row['firstName']} {row['lastName']}".strip()
CreatorName(c) == Strip(c[1] \o <<" ">> \o c[2])

RECURSIVE JoinNames(_)
JoinNames(names) ==
    IF Len(names) = 0 THEN <<>>
    ELSE IF Len(names) = 1 THEN names[1]
    ELSE names[1] \o <<",", " ">> \o JoinNames(Tail(names))

\* _get_item_metadata: the title field, and the authors when there are any
Authors(row) ==
    LET names == SelectSeq([i \in 1..Len(row.creators) |->
                               CreatorName(row.creators[i])],
                           LAMBDA n : n # <<>>)
    IN  IF names = <<>> THEN None ELSE Some(JoinNames(names))

ItemDict(view, item_id) ==
    LET row == view.items[item_id]
    IN  [itemID |-> item_id, key |-> row.key, dateAdded |-> row.dateAdded,
         dateModified |-> row.dateModified,
         title |-> IF row.title = <<>> THEN None ELSE Some(row.title),
         authors |-> Authors(row)]

GetItem(item_id) ==
    /\ DbCall("get_item", DbArgs(item_id, <<>>, None, <<>>, 0))
    /\ UNCHANGED syncvars
    /\ UNCHANGED connects

\* SELECT itemID, key, dateAdded, dateModified FROM items ...;
\* if not row: return None
SelectItem ==
    /\ Running("get_item", "select_item")
    /\ \E out \in StepOutcomes :
        IF ~out.ok
        THEN FuncRaises(out.error)
        ELSE IF ~ItemRow(Visible(Top.conn), Top.args.item_id)
        THEN FuncReturns(NoValue)
        ELSE /\ stack' = SetTop([Top EXCEPT !.pc = "item_metadata"])
             /\ UNCHANGED <<db_ret, open_conns>>
    /\ UNCHANGED <<db, db_pre, added>>
    /\ UNCHANGED clientvars
    /\ UNCHANGED syncvars
    /\ UNCHANGED connects

\* item.update(self._get_item_metadata(cursor, item_id))
ItemMetadata ==
    /\ Running("get_item", "item_metadata")
    /\ \E out \in StepOutcomes :
        IF ~out.ok
        THEN FuncRaises(out.error)
        ELSE /\ stack' = SetTop([Top EXCEPT !.pc = "pdf_path"])
             /\ UNCHANGED <<db_ret, open_conns>>
    /\ UNCHANGED <<db, db_pre, added>>
    /\ UNCHANGED clientvars
    /\ UNCHANGED syncvars
    /\ UNCHANGED connects

\* pdf_path = self._get_pdf_path(cursor, item_id); return item
PdfPath ==
    /\ Running("get_item", "pdf_path")
    /\ \E out \in StepOutcomes :
        IF ~out.ok
        THEN FuncRaises(out.error)
        ELSE FuncReturns(ItemDict(Visible(Top.conn), Top.args.item_id))
    /\ UNCHANGED <<db, db_pre, added>>
    /\ UNCHANGED clientvars
    /\ UNCHANGED syncvars
    /\ UNCHANGED connects

(* ------------------------------ search_items ---------------------------- *)

\* value LIKE '%query%', which ignores the case of ASCII letters
Like(value, query) == Contains(Lower(value), Lower(query))

\* the items the query selects
Matches(view, query) ==
    {i \in DOMAIN view.items :
        /\ i \notin view.deletedItems
        /\ \/ Like(view.items[i].title, query) /\ view.items[i].title # <<>>
           \/ \E k \in 1..Len(view.items[i].creators) :
                \/ Like(view.items[i].creators[k][1], query)
                \/ Like(view.items[i].creators[k][2], query)}

Min(a, b) == IF a < b THEN a ELSE b

\* LIMIT ?: some limit of the rows, in some order
Limited(S, limit) ==
    {q \in [1..Min(limit, Cardinality(S)) -> S] :
        \A i, j \in 1..Min(limit, Cardinality(S)) : i # j => q[i] # q[j]}

SearchItems(query, limit) ==
    /\ DbCall("search_items", DbArgs(0, <<>>, None, query, limit))
    /\ UNCHANGED syncvars
    /\ UNCHANGED connects

\* cursor.execute(...); item_ids = [...]; the with block ends
SearchQuery ==
    /\ Running("search_items", "search_query")
    /\ \E out \in StepOutcomes :
        IF ~out.ok
        THEN FuncRaises(out.error)
        ELSE \E ids \in Limited(Matches(Visible(Top.conn), Top.args.query),
                                Top.args.limit) :
                /\ stack' = SetTop([Top EXCEPT
                                       !.conn = ExitOnReturn(Top.conn),
                                       !.loc.ids = ids,
                                       !.pc = "hydrate"])
                /\ open_conns' = open_conns - OpenCount(Top.conn)
                                    + OpenCount(ExitOnReturn(Top.conn))
                /\ db_ret' = db_ret
    /\ UNCHANGED <<db, db_pre, added>>
    /\ UNCHANGED clientvars
    /\ UNCHANGED syncvars
    /\ UNCHANGED connects

\* return [self.get_item(item_id) for item_id in item_ids
\*         if self.get_item(item_id)]
HydrateStep ==
    /\ Running("search_items", "hydrate")
    /\ IF Top.loc.idx <= Len(Top.loc.ids)
       THEN /\ stack' = Append(stack,
                    Frame("get_item",
                          DbArgs(Top.loc.ids[Top.loc.idx], <<>>, None, <<>>, 0)))
            /\ UNCHANGED <<db_ret, open_conns>>
       ELSE FuncReturns(Top.loc.acc)
    /\ UNCHANGED <<db, db_pre, added>>
    /\ UNCHANGED clientvars
    /\ UNCHANGED syncvars

Hydrate == HydrateStep /\ UNCHANGED connects

\* the same step where the get_item calls are counted
CountedHydrate ==
    /\ HydrateStep
    /\ connects' = [connects EXCEPT
                       !.get_items = @ + (IF Len(stack') > Len(stack)
                                          THEN 1 ELSE 0)]

(* ------------------------------- list_items ----------------------------- *)

\* a library with tags and collections: two articles that share a
\* modification time, a soft-deleted article, an attachment, a court case,
\* whose name is stored in the field caseName and which has no field title,
\* and a note of the first article
ListLibrary ==
    (1 :> [typeName |-> "journalArticle", libraryID |-> 1, dateAdded |-> 1,
           dateModified |-> 3, key |-> <<"K", 0, 1>>,
           title |-> <<"A", "b">>, creators |-> <<>>,
           tags |-> {<<"t">>, <<"u">>}, collections |-> {<<"c">>}]) @@
    (2 :> [typeName |-> "journalArticle", libraryID |-> 1, dateAdded |-> 2,
           dateModified |-> 4, key |-> <<"K", 0, 2>>,
           title |-> <<"b">>, creators |-> <<>>,
           tags |-> {<<"t">>}, collections |-> {<<"c">>}]) @@
    (3 :> [typeName |-> "journalArticle", libraryID |-> 1, dateAdded |-> 2,
           dateModified |-> 3, key |-> <<"K", 0, 3>>,
           title |-> <<"B", "c">>, creators |-> <<>>,
           tags |-> {<<"t">>}, collections |-> {}]) @@
    (5 :> [typeName |-> "attachment", libraryID |-> 1, dateAdded |-> 2,
           dateModified |-> 6, key |-> <<"K", 0, 5>>,
           title |-> <<"f">>, creators |-> <<>>,
           tags |-> {<<"t">>}, collections |-> {<<"c">>}]) @@
    (6 :> [typeName |-> "case", libraryID |-> 1, dateAdded |-> 2,
           dateModified |-> 5, key |-> <<"K", 0, 6>>,
           title |-> <<>>, creators |-> <<>>,
           tags |-> {<<"t">>}, collections |-> {<<"c">>}]) @@
    (7 :> [typeName |-> "note", libraryID |-> 1, dateAdded |-> 2,
           dateModified |-> 7, key |-> <<"K", 0, 7>>,
           title |-> <<>>, creators |-> <<>>,
           tags |-> {<<"t">>}, collections |-> {}])

ListStore ==
    [items |-> ListLibrary, deletedItems |-> {2},
     itemNotes |-> {[itemID |-> 7, parentItemID |-> 1,
                     note |-> <<"n", "\n", "\n", "x">>]}]

\* the collection and tags arguments of list_items
CollectionFilters == {None, Some(<<>>), Some(<<"c">>), Some(<<"z">>)}

TagFilters == {<<>>, <<(<<"t">>)>>, <<(<<"t">>), (<<"u">>)>>, <<(<<"z">>)>>}

ListLimits == {0, 1, 2, 50}

\* if collection: ... c.collectionName = ?
InCollection(item, collection) ==
    (collection.given /\ collection.text # <<>>) =>
        collection.text \in item.collections

\* if tags: for tag in tags: ... t.name = ?
HasTags(item, tags) ==
    \A k \in 1..Len(tags) : tags[k] \in item.tags

\* the WHERE clause
Listed(view, collection, tags) ==
    {i \in DOMAIN view.items :
        /\ i \notin view.deletedItems
        /\ view.items[i].title # <<>>
        /\ view.items[i].typeName \notin {"attachment", "note"}
        /\ \A n \in view.itemNotes : n.itemID # i
        /\ InCollection(view.items[i], collection)
        /\ HasTags(view.items[i], tags)}

ListArgs(collection, tags, limit) ==
    [DbArgs(0, <<>>, None, <<>>, limit) EXCEPT
        !.collection = collection, !.tags = tags]

ListItems(collection, tags, limit) ==
    /\ DbCall("list_items", ListArgs(collection, tags, limit))
    /\ UNCHANGED syncvars
    /\ UNCHANGED connects

\* ORDER BY i.dateModified DESC LIMIT ?; rows = cursor.fetchall()
ListQuery ==
    /\ Running("list_items", "list_query")
    /\ \E out \in StepOutcomes :
        IF ~out.ok
        THEN FuncRaises(out.error)
        ELSE LET view == Visible(Top.conn)
                 rows_ == Listed(view, Top.args.collection, Top.args.tags)
                 Modified == [i \in rows_ |-> view.items[i].dateModified]
             IN  \E q \in Descending(rows_, Modified) :
                    LET rows == SubSeq(q, 1, Min(Top.args.limit, Len(q)))
                    IN  IF rows = <<>>
                        THEN FuncReturns(<<>>)
                        ELSE /\ stack' = SetTop([Top EXCEPT !.loc.ids = rows,
                                                            !.pc = "enrich"])
                             /\ UNCHANGED <<db_ret, open_conns>>
    /\ UNCHANGED <<db, db_pre, added>>
    /\ UNCHANGED clientvars
    /\ UNCHANGED syncvars
    /\ UNCHANGED connects

\* for row in rows: metadata, pdf path and attachments of the row; return items
Enrich ==
    /\ Running("list_items", "enrich")
    /\ \E out \in StepOutcomes :
        IF ~out.ok
        THEN FuncRaises(out.error)
        ELSE LET f == Top
                 items == Append(f.loc.acc,
                                 ItemDict(Visible(f.conn), f.loc.ids[f.loc.idx]))
             IN  IF f.loc.idx < Len(f.loc.ids)
                 THEN /\ stack' = SetTop([f EXCEPT !.loc.acc = items,
                                                   !.loc.idx = @ + 1])
                      /\ UNCHANGED <<db_ret, open_conns>>
                 ELSE FuncReturns(items)
    /\ UNCHANGED <<db, db_pre, added>>
    /\ UNCHANGED clientvars
    /\ UNCHANGED syncvars
    /\ UNCHANGED connects

(* --------------------------- the record store --------------------------- *)

\* a ZoteroDatabase on the initial library, beside a client that is not used
InitDb ==
    /\ max_retries = 3
    /\ retry_delay = 1
    /\ total_input_tokens = 0
    /\ total_output_tokens = 0
    /\ total_requests = 0
    /\ pc = "idle"
    /\ attempt = 0
    /\ last_error = NoError
    /\ delay = 0
    /\ ret = Ret("__init__", NoValue, "return", NoError, NoValue)
    /\ call_count = 0
    /\ sleep_calls = <<>>
    /\ trace = <<>>
    /\ last_created = NoOutcome
    /\ all_transient = TRUE
    /\ pre = Usage(0, 0, 0)
    /\ since_reset = Usage(0, 0, 0)
    /\ DbStart
    /\ SyncStart

\* a caller that adds notes with every kind of argument and reads them back
NextDb ==
    \/ \E p \in ArgIds, c \in NoteContents, t \in NoteTitles : AddNote(p, c, t)
    \/ \E p \in ArgIds : GetNotes(p)
    \/ \E i \in ArgIds : GetItem(i)
    \/ Connect
    \/ DbSleep
    \/ ParentCheck
    \/ SelectNoteType
    \/ InsertItem
    \/ InsertNote
    \/ Commit
    \/ SelectNotes
    \/ SelectItem
    \/ ItemMetadata
    \/ PdfPath

SpecDb == InitDb /\ [][NextDb]_vars

\* a caller that uses all five operations, adding untitled notes to the first
\* article
NextStore ==
    \/ \E c \in NoteContents : AddNote(1, c, None)
    \/ \E p \in ArgIds : GetNotes(p)
    \/ \E i \in ArgIds : GetItem(i)
    \/ \E q \in Queries, l \in Limits : SearchItems(q, l)
    \/ \E l \in Limits : ListItems(None, <<>>, l)
    \/ Connect
    \/ DbSleep
    \/ ParentCheck
    \/ SelectNoteType
    \/ InsertItem
    \/ InsertNote
    \/ Commit
    \/ SelectNotes
    \/ SelectItem
    \/ ItemMetadata
    \/ PdfPath
    \/ SearchQuery
    \/ Hydrate
    \/ ListQuery
    \/ Enrich

SpecStore == InitDb /\ [][NextStore]_vars

(* ------------------------ the cost of a search -------------------------- *)

\* search_items is called and its cost counted from zero
CountedSearchItems(query, limit) ==
    /\ DbCall("search_items", DbArgs(0, <<>>, None, query, limit))
    /\ connects' = NoConnects
    /\ UNCHANGED syncvars

\* a caller that searches, with the cost of each search counted
NextSearch ==
    \/ \E q \in Queries, l \in Limits : CountedSearchItems(q, l)
    \/ CountedConnect
    \/ DbSleep
    \/ SearchQuery
    \/ CountedHydrate
    \/ SelectItem
    \/ ItemMetadata
    \/ PdfPath

SpecSearch == InitDb /\ [][NextSearch]_vars

(* ------------------------- listing the library -------------------------- *)

\* a ZoteroDatabase on the library with tags and collections
InitList ==
    /\ max_retries = 3
    /\ retry_delay = 1
    /\ total_input_tokens = 0
    /\ total_output_tokens = 0
    /\ total_requests = 0
    /\ pc = "idle"
    /\ attempt = 0
    /\ last_error = NoError
    /\ delay = 0
    /\ ret = Ret("__init__", NoValue, "return", NoError, NoValue)
    /\ call_count = 0
    /\ sleep_calls = <<>>
    /\ trace = <<>>
    /\ last_created = NoOutcome
    /\ all_transient = TRUE
    /\ pre = Usage(0, 0, 0)
    /\ since_reset = Usage(0, 0, 0)
    /\ connects = NoConnects
    /\ db = ListStore
    /\ stack = <<>>
    /\ db_ret = DbRet("__init__", NoArgs, "return", NoDbError, NoValue,
                      0, <<>>, 0, TRUE, NoDbError, "")
    /\ db_pre = ListStore
    /\ open_conns = 0
    /\ added = <<>>
    /\ SyncStart

\* a caller that lists the library with every filter
NextList ==
    \/ \E c \in CollectionFilters, t \in TagFilters, l \in ListLimits :
          ListItems(c, t, l)
    \/ Connect
    \/ DbSleep
    \/ ListQuery
    \/ Enrich

SpecList == InitList /\ [][NextList]_vars

(* ------------------ the store shared with its owner --------------------- *)

\* the record the owning application acts on while this system adds a note
ExternalTargets == {1}

\* no connection of this system has an INSERT pending: the SELECTs of
\* add_note run before the transaction that sqlite3 opens for the first
\* INSERT, so until then the engine lets another writer commit
NoWriteLock ==
    \A k \in 1..Len(stack) :
        stack[k].conn.new_items = <<>> /\ stack[k].conn.new_notes = {}

\* the owning application moves a record to the trash
ExternalSoftDelete(i) ==
    /\ NoWriteLock
    /\ i \in DOMAIN db.items
    /\ i \notin db.deletedItems
    /\ db' = [db EXCEPT !.deletedItems = @ \cup {i}]
    /\ UNCHANGED <<stack, db_ret, db_pre, open_conns, added>>
    /\ UNCHANGED clientvars
    /\ UNCHANGED syncvars
    /\ UNCHANGED connects

\* the owning application erases a record together with its notes
ExternalRemove(i) ==
    /\ NoWriteLock
    /\ i \in DOMAIN db.items
    /\ LET gone == {i} \cup {n.itemID : n \in {m \in db.itemNotes :
                                                  m.parentItemID = i}}
       IN  db' = [items |-> [j \in DOMAIN db.items \ gone |-> db.items[j]],
                  deletedItems |-> db.deletedItems \ gone,
                  itemNotes |-> {n \in db.itemNotes : n.itemID \notin gone}]
    /\ UNCHANGED <<stack, db_ret, db_pre, open_conns, added>>
    /\ UNCHANGED clientvars
    /\ UNCHANGED syncvars
    /\ UNCHANGED connects

\* a caller that adds untitled notes to the first article while the owning
\* application acts on that article
NextShared ==
    \/ \E c \in NoteContents : AddNote(1, c, None)
    \/ \E i \in ExternalTargets : ExternalSoftDelete(i)
    \/ \E i \in ExternalTargets : ExternalRemove(i)
    \/ Connect
    \/ DbSleep
    \/ ParentCheck
    \/ SelectNoteType
    \/ InsertItem
    \/ InsertNote
    \/ Commit

SpecShared == InitDb /\ [][NextShared]_vars

(* ============================ PromptTemplate ============================= *)

PromptTypes ==
    {"comprehensive", "quick_summary", "technical_deep_dive",
     "literature_review", "methodology", "citation_analysis"}

FieldMetadata == <<"m", "e", "t", "a", "d", "a", "t", "a">>

FieldPaperText == <<"p", "a", "p", "e", "r", "_", "t", "e", "x", "t">>

FieldCustomInstructions ==
    <<"c", "u", "s", "t", "o", "m", "_", "i", "n", "s", "t", "r",
      "u", "c", "t", "i", "o", "n", "s">>

\* the six templates: each has its own wording around the same three
\* replacement fields, in the same order, and no other brace; the wording is
\* cut down to one letter for the instruction, "Paper Information:", "Full
\* Text:", the list of sections and the closing sentence
TemplateText(head) ==
    <<head, "\n", "I", ":", "\n">> \o <<"{">> \o FieldMetadata \o <<"}">> \o
    <<"\n", "T", ":", "\n">> \o <<"{">> \o FieldPaperText \o <<"}">> \o
    <<"\n", "S", "\n">> \o <<"{">> \o FieldCustomInstructions \o <<"}">> \o
    <<"\n", "E">>

\* _get_template
GetTemplate(prompt_type) ==
    CASE prompt_type = "comprehensive"       -> TemplateText("C")
      [] prompt_type = "quick_summary"       -> TemplateText("Q")
      [] prompt_type = "technical_deep_dive" -> TemplateText("D")
      [] prompt_type = "literature_review"   -> TemplateText("L")
      [] prompt_type = "methodology"         -> TemplateText("M")
      [] prompt_type = "citation_analysis"   -> TemplateText("A")

\* ", ".join(authors) and "\n".join(parts)
RECURSIVE JoinWith(_, _)
JoinWith(parts, sep) ==
    IF Len(parts) = 0 THEN <<>>
    ELSE IF Len(parts) = 1 THEN parts[1]
    ELSE parts[1] \o sep \o JoinWith(Tail(parts), sep)

\* a metadata value: a string or, for the authors, possibly a list
Str(t) == [given |-> TRUE, is_list |-> FALSE, text |-> t, items |-> <<>>]

StrList(l) == [given |-> TRUE, is_list |-> TRUE, text |-> <<>>, items |-> l]

Absent == [given |-> FALSE, is_list |-> FALSE, text |-> <<>>, items |-> <<>>]

MetadataKeys == <<"title", "authors", "year", "publication", "doi", "url">>

MetadataLabel(key) ==
    CASE key = "title"       -> <<"-", " ", "T", "i", "t", "l", "e", ":", " ">>
      [] key = "authors"     -> <<"-", " ", "A", "u", "t", "h", "o", "r", "s", ":", " ">>
      [] key = "year"        -> <<"-", " ", "Y", "e", "a", "r", ":", " ">>
      [] key = "publication" -> <<"-", " ", "P", "u", "b", "l", "i", "c", "a", "t", "i", "o", "n", ":", " ">>
      [] key = "doi"         -> <<"-", " ", "D", "O", "I", ":", " ">>
      [] key = "url"         -> <<"-", " ", "U", "R", "L", ":", " ">>

MsgNoMetadata ==
    <<"-", " ", "N", "o", " ", "m", "e", "t", "a", "d", "a", "t",
      "a", " ", "a", "v", "a", "i", "l", "a", "b", "l", "e">>

\* _format_metadata: one line for each key present, in this order
MetadataValue(v) ==
    IF v.is_list THEN JoinWith(v.items, <<",", " ">>) ELSE v.text

FormatMetadata(metadata) ==
    LET present == SelectSeq(MetadataKeys, LAMBDA k : metadata[k].given)
        parts == [i \in 1..Len(present) |->
                     MetadataLabel(present[i]) \o
                     MetadataValue(metadata[present[i]])]
    IN  IF parts = <<>> THEN MsgNoMetadata ELSE JoinWith(parts, <<"\n">>)

\* the keyword arguments of template.format
FormatArgs(paper_text, metadata, custom_instructions) ==
    [metadata |-> FormatMetadata(metadata),
     paper_text |-> paper_text,
     custom_instructions |->
         IF custom_instructions.given THEN custom_instructions.text ELSE <<>>]

FieldValue(kw, name) ==
    IF name = FieldMetadata THEN [ok |-> TRUE, text |-> kw.metadata]
    ELSE IF name = FieldPaperText THEN [ok |-> TRUE, text |-> kw.paper_text]
    ELSE IF name = FieldCustomInstructions
    THEN [ok |-> TRUE, text |-> kw.custom_instructions]
    ELSE [ok |-> FALSE, text |-> <<>>]

\* the index of the first c in t at or after i, 0 when there is none
IndexFrom(t, c, i) ==
    IF \E j \in i..Len(t) : t[j] = c
    THEN CHOOSE j \in i..Len(t) :
            t[j] = c /\ \A k \in i..(j - 1) : t[k] # c
    ELSE 0

\* str.replace(old, new)
RECURSIVE Replace(_, _, _)
Replace(t, old, new) ==
    IF Len(t) < Len(old) THEN t
    ELSE IF SubSeq(t, 1, Len(old)) = old
    THEN new \o Replace(SubSeq(t, Len(old) + 1, Len(t)), old, new)
    ELSE <<t[1]>> \o Replace(Tail(t), old, new)

\* faulty variant: one replace after the other, which rewrites what an
\* earlier replacement put in
StrFormat_ReplaceInTurn(t, kw) ==
    [ok |-> TRUE,
     text |-> Replace(Replace(Replace(t,
                  <<"{">> \o FieldMetadata \o <<"}">>, kw.metadata),
                  <<"{">> \o FieldPaperText \o <<"}">>, kw.paper_text),
                  <<"{">> \o FieldCustomInstructions \o <<"}">>,
                  kw.custom_instructions)]

\* str.format(**kw): the template is read once from left to right; "{{" and
\* "}}" give one brace, "{name}" gives the value of name, which is not read
\* again; a lone brace or an unknown name raises
RECURSIVE StrFormat(_, _)
StrFormat(t, kw) ==
    IF t = <<>> THEN [ok |-> TRUE, text |-> <<>>]
    ELSE IF t[1] = "{" /\ Len(t) >= 2 /\ t[2] = "{"
    THEN LET rest == StrFormat(SubSeq(t, 3, Len(t)), kw)
         IN  [ok |-> rest.ok, text |-> <<"{">> \o rest.text]
    ELSE IF t[1] = "}" /\ Len(t) >= 2 /\ t[2] = "}"
    THEN LET rest == StrFormat(SubSeq(t, 3, Len(t)), kw)
         IN  [ok |-> rest.ok, text |-> <<"}">> \o rest.text]
    ELSE IF t[1] = "}" THEN [ok |-> FALSE, text |-> <<>>]
    ELSE IF t[1] = "{"
    THEN LET j == IndexFrom(t, "}", 2)
         IN  IF j = 0 THEN [ok |-> FALSE, text |-> <<>>]
             ELSE LET v == FieldValue(kw, SubSeq(t, 2, j - 1))
                      rest == StrFormat(SubSeq(t, j + 1, Len(t)), kw)
                  IN  [ok |-> v.ok /\ rest.ok, text |-> v.text \o rest.text]
    ELSE LET rest == StrFormat(Tail(t), kw)
         IN  [ok |-> rest.ok, text |-> <<t[1]>> \o rest.text]

\* the inputs of build
BraceTexts ==
    {<<"p">>,
     <<"{">> \o FieldPaperText \o <<"}">>,
     <<"x", "{">> \o FieldMetadata \o <<"}", "y">>,
     <<"{">> \o FieldCustomInstructions \o <<"}">>,
     <<"{", "{", "q", "}", "}">>,
     <<"}", " ", "{">>}

Metadatas ==
    {[title |-> Absent, authors |-> Absent, year |-> Absent,
      publication |-> Absent, doi |-> Absent, url |-> Absent],
     [title |-> Str(<<"T">>), authors |-> Absent, year |-> Absent,
      publication |-> Absent, doi |-> Absent, url |-> Absent],
     [title |-> Str(<<"{">> \o FieldPaperText \o <<"}">>),
      authors |-> StrList(<<(<<"A">>), (<<"B">>)>>), year |-> Str(<<"2">>),
      publication |-> Absent, doi |-> Absent, url |-> Str(<<"u">>)],
     [title |-> Absent, authors |-> Str(<<"A">>), year |-> Absent,
      publication |-> Str(<<"J">>), doi |-> Str(<<"d">>), url |-> Absent]}

CustomInstructions ==
    {None, Some(<<>>), Some(<<"c", "{">> \o FieldPaperText \o <<"}">>)}

BuildArgs(prompt_type, paper_text, metadata, custom_instructions) ==
    [prompt_type |-> prompt_type, paper_text |-> paper_text,
     metadata |-> metadata, custom_instructions |-> custom_instructions]

\* a str.format that fails raises ValueError or KeyError
FormatError == Exc("ValueError", FALSE, 0, 0)

\* PromptTemplate(prompt_type).build(paper_text, metadata, custom_instructions)
Build ==
    /\ ret.op = "build"
    /\ ret.kind = "none"
    /\ LET a == ret.args
           prompt == StrFormat(GetTemplate(a.prompt_type),
                               FormatArgs(a.paper_text, a.metadata,
                                          a.custom_instructions))
       IN  ret' = IF prompt.ok
                  THEN [ret EXCEPT !.kind = "return",
                                   !.value = [prompt |-> prompt.text]]
                  ELSE [ret EXCEPT !.kind = "raise", !.exc = FormatError]
    /\ UNCHANGED <<config, counters, loop, mocks, pre, since_reset, pc>>
    /\ UNCHANGED dbvars
    /\ UNCHANGED syncvars
    /\ UNCHANGED connects

\* a template of each type about to build a prompt from each input
InitPrompt ==
    /\ max_retries = 3
    /\ retry_delay = 1
    /\ total_input_tokens = 0
    /\ total_output_tokens = 0
    /\ total_requests = 0
    /\ pc = "idle"
    /\ attempt = 0
    /\ last_error = NoError
    /\ delay = 0
    /\ \E ty \in PromptTypes, p \in BraceTexts, m \in Metadatas,
          c \in CustomInstructions :
        ret = Ret("build", BuildArgs(ty, p, m, c), "none", NoError, NoValue)
    /\ call_count = 0
    /\ sleep_calls = <<>>
    /\ trace = <<>>
    /\ last_created = NoOutcome
    /\ all_transient = TRUE
    /\ pre = Usage(0, 0, 0)
    /\ since_reset = Usage(0, 0, 0)
    /\ DbStart
    /\ SyncStart

NextPrompt == Build

SpecPrompt == InitPrompt /\ [][NextPrompt]_vars

(* ============================ the sync commands ========================= *)

\* the most sync commands run one after the other
MaxRuns == 2

\* str.startswith(prefix)
StartsWith(t, prefix) ==
    Len(t) >= Len(prefix) /\ SubSeq(t, 1, Len(prefix)) = prefix

\* t.split('\n', 1)[0]
FirstLine(t) ==
    LET j == IndexFrom(t, "\n", 1)
    IN  IF j = 0 THEN t ELSE SubSeq(t, 1, j - 1)

\* t[:n]
Take(t, n) == SubSeq(t, 1, Min(n, Len(t)))

\* HTMLStripper: the text outside the tags
RECURSIVE DropTags(_)
DropTags(t) ==
    IF t = <<>> THEN <<>>
    ELSE IF t[1] = "<" /\ IndexFrom(t, ">", 2) # 0
    THEN DropTags(SubSeq(t, IndexFrom(t, ">", 2) + 1, Len(t)))
    ELSE <<t[1]>> \o DropTags(Tail(t))

\* strip_html_tags
StripHtmlTags(html_content) == Strip(DropTags(html_content))

InvalidChars == {"<", ">", ":", "\"", "/", "\\", "|", "?", "*"}

RECURSIVE StripDotsAndSpaces(_)
StripDotsAndSpaces(t) ==
    IF t = <<>> THEN <<>>
    ELSE IF t[1] \in {".", " "} THEN StripDotsAndSpaces(Tail(t))
    ELSE IF t[Len(t)] \in {".", " "}
    THEN StripDotsAndSpaces(SubSeq(t, 1, Len(t) - 1))
    ELSE t

\* _sanitize_filename
SanitizeFilename(name) ==
    Take(StripDotsAndSpaces([i \in 1..Len(name) |->
                                IF name[i] \in InvalidChars THEN "_"
                                ELSE name[i]]), 200)

\* paper.md, of which sync-notes reads the zotero_id of the frontmatter
PaperMd(zotero_id, collections) ==
    [given |-> TRUE, zotero_id |-> zotero_id, collections |-> collections]

NoPaperMd == [given |-> FALSE, zotero_id |-> 0, collections |-> {}]

\* Zotero/repo/{item_key}/: paper.md, the other .md files by stem, and the
\* attachment files
PaperDir(paper_md, notes, files) ==
    [paper_md |-> paper_md, notes |-> notes, files |-> files]

VaultOf(papers) ==
    [base |-> TRUE, repo |-> TRUE, collections |-> TRUE,
     papers |-> papers, views |-> {}]

\* the vaults the commands start on: never synced; synced from an empty
\* library; one paper without reports; one paper with a report whose title
\* no note has, one with a report whose title a note has; a paper whose item
\* is gone from the library; a paper directory without paper.md
InitialVaults ==
    {EmptyVault,
     VaultOf(<<>>),
     VaultOf(<<"K", 0, 1>> :> PaperDir(PaperMd(1, {}), <<>>, {})),
     VaultOf(<<"K", 0, 1>> :>
                PaperDir(PaperMd(1, {}), <<"M", "y">> :> <<"b">>, {})),
     VaultOf(<<"K", 0, 1>> :>
                PaperDir(PaperMd(1, {}), <<"n">> :> <<"y">>, {})),
     VaultOf(<<"K", 0, 9>> :>
                PaperDir(PaperMd(9, {}), <<"M", "y">> :> <<"b">>, {})),
     VaultOf(<<"K", 0, 1>> :> PaperDir(NoPaperMd, <<"M", "y">> :> <<"b">>, {}))}

\* the files found on disk for the attachments of an item
AttachmentFiles(item_id) == IF item_id = 1 THEN {<<"f">>} ELSE {}

\* the sequences of the elements of S, each once
Orderings(S) ==
    {q \in [1..Cardinality(S) -> S] :
        \A i, j \in 1..Cardinality(S) : i # j => q[i] # q[j]}

\* a command ends: its locals are gone
SyncEnds == [SyncIdle EXCEPT !.runs = sync.runs]

SyncReturns(stats) ==
    /\ sync' = SyncEnds
    /\ sync_ret' = [sync_ret EXCEPT !.kind = "return", !.stats = stats,
                                    !.adds = sync.adds]

SyncRaises ==
    /\ sync' = SyncEnds
    /\ sync_ret' = [sync_ret EXCEPT !.kind = "raise", !.adds = sync.adds]

\* the next entry of the loop, or the end of the loop
Advance(stats) ==
    sync' = [sync EXCEPT !.stats = stats, !.idx = @ + 1, !.pc = "loop"]

(* --------------------------- sync_notes_to_zotero ----------------------- *)

\* the statistics of the return before the scan
StatsNoRepo == ("notes_synced" :> 0) @@ ("errors" :> <<>>)

NotesStats ==
    ("notes_synced" :> 0) @@ ("notes_skipped" :> 0) @@ ("errors" :> <<>>)

\* zotero_id = _extract_zotero_id(paper_md); if not zotero_id: continue
HasZoteroId(dir) == dir.paper_md.given /\ dir.paper_md.zotero_id # 0

\* the entries of notes_to_sync: the .md files other than paper.md of the
\* paper directories whose paper.md holds a zotero_id
NotesToSync(v) ==
    UNION {{[item_key |-> k, zotero_id |-> v.papers[k].paper_md.zotero_id,
             note_title |-> f, content |-> v.papers[k].notes[f]] :
               f \in DOMAIN v.papers[k].notes} :
           k \in {d \in DOMAIN v.papers : HasZoteroId(v.papers[d])}}

\* content.startswith(note_info['note_title'] + '\n') for one of the notes
NoteExists(existing_notes, note_title) ==
    \E k \in 1..Len(existing_notes) :
        StartsWith(existing_notes[k].content, note_title \o <<"\n">>)

\* sync_notes_to_zotero up to the loop over notes_to_sync
SyncNotesToZotero(dry_run, overwrite) ==
    /\ sync.pc = "idle"
    /\ stack = <<>>
    /\ sync.runs < MaxRuns
    /\ LET begun == [SyncIdle EXCEPT !.runs = sync.runs + 1]
           called == SyncRet("sync_notes_to_zotero", dry_run, overwrite,
                             "return", NoStats, 0)
       IN  IF ~vault.repo
           THEN /\ sync' = begun
                /\ sync_ret' = [called EXCEPT !.stats = StatsNoRepo]
           ELSE IF DOMAIN vault.papers = {} \/ NotesToSync(vault) = {}
           THEN /\ sync' = begun
                /\ sync_ret' = [called EXCEPT !.stats = NotesStats]
           ELSE /\ \E q \in Orderings(NotesToSync(vault)) :
                    sync' = [begun EXCEPT !.pc = "loop",
                                          !.op = "sync_notes_to_zotero",
                                          !.dry_run = dry_run,
                                          !.overwrite = overwrite,
                                          !.notes_to_sync = q,
                                          !.stats = NotesStats]
                /\ sync_ret' = [called EXCEPT !.kind = "none"]
    /\ UNCHANGED <<clientvars, dbvars, vault>>
    /\ UNCHANGED connects

\* for note_info in notes_to_sync: ... zotero_db.get_notes(zotero_id);
\* after the loop: return stats
NoteLoop ==
    /\ sync.op = "sync_notes_to_zotero"
    /\ sync.pc = "loop"
    /\ IF sync.idx <= Len(sync.notes_to_sync)
       THEN /\ DbCall("get_notes",
                      DbArgs(sync.notes_to_sync[sync.idx].zotero_id,
                             <<>>, None, <<>>, 0))
            /\ sync' = [sync EXCEPT !.pc = "existing"]
            /\ UNCHANGED <<vault, sync_ret>>
       ELSE /\ SyncReturns(sync.stats)
            /\ UNCHANGED <<clientvars, dbvars, vault>>
    /\ UNCHANGED connects

\* faulty variant: the dry run adds the note as well
MayAdd_AlsoDryRun(dry_run) == TRUE

\* if not dry_run: zotero_db.add_note(...)
MayAdd(dry_run) == ~dry_run

\* the loop over existing_notes, and what follows it: the note is skipped,
\* counted without a call (dry run), or added
ExistingNotes ==
    /\ sync.op = "sync_notes_to_zotero"
    /\ sync.pc = "existing"
    /\ stack = <<>>
    /\ LET note_info == sync.notes_to_sync[sync.idx]
       IN  IF db_ret.kind = "raise"
           THEN \* except Exception as e: stats['errors'].append(error_msg)
                /\ Advance([sync.stats EXCEPT
                               !["errors"] = Append(@, note_info.note_title)])
                /\ UNCHANGED <<clientvars, dbvars, vault, sync_ret>>
           ELSE LET note_exists == NoteExists(db_ret.value,
                                              note_info.note_title)
                    skipped == IF note_exists /\ ~sync.overwrite
                               THEN [sync.stats EXCEPT !["notes_skipped"] = @ + 1]
                               ELSE sync.stats
                IN  IF ~(~note_exists \/ sync.overwrite)
                    THEN /\ Advance(skipped)
                         /\ UNCHANGED <<clientvars, dbvars, vault, sync_ret>>
                    ELSE IF MayAdd(sync.dry_run)
                    THEN /\ DbCall("add_note",
                                   DbArgs(note_info.zotero_id, note_info.content,
                                          Some(note_info.note_title), <<>>, 0))
                         /\ sync' = [sync EXCEPT !.pc = "adding",
                                                 !.adds = @ + 1]
                         /\ UNCHANGED <<vault, sync_ret>>
                    ELSE /\ Advance([skipped EXCEPT !["notes_synced"] = @ + 1])
                         /\ UNCHANGED <<clientvars, dbvars, vault, sync_ret>>
    /\ UNCHANGED connects

\* add_note has ended: stats['notes_synced'] += 1, or the except clause
NoteAdded ==
    /\ sync.op = "sync_notes_to_zotero"
    /\ sync.pc = "adding"
    /\ stack = <<>>
    /\ LET note_info == sync.notes_to_sync[sync.idx]
       IN  IF db_ret.kind = "raise"
           THEN Advance([sync.stats EXCEPT
                            !["errors"] = Append(@, note_info.note_title)])
           ELSE Advance([sync.stats EXCEPT !["notes_synced"] = @ + 1])
    /\ UNCHANGED <<clientvars, dbvars, vault, sync_ret>>
    /\ UNCHANGED connects

(* ------------------------------ sync_to_obsidian ------------------------ *)

SyncStats ==
    ("papers_synced" :> 0) @@ ("files_copied" :> 0) @@
    ("collections_created" :> 0) @@ ("errors" :> <<>>)

\* items = zotero_db.list_items(limit=999999)
AllItems == 999999

\* zotero_base.mkdir(exist_ok=True); zotero_dir.mkdir(exist_ok=True);
\* collections_dir.mkdir(exist_ok=True)
MainDirectories(v) ==
    [v EXCEPT !.base = TRUE, !.repo = TRUE, !.collections = TRUE]

\* if not dry_run: ... : what a step leaves of the vault
Written(dry_run, before, after) == IF dry_run THEN before ELSE after

\* sync_to_obsidian up to the call of list_items
SyncToObsidian(dry_run) ==
    /\ sync.pc = "idle"
    /\ sync.runs < MaxRuns
    /\ sync_ret' = SyncRet("sync_to_obsidian", dry_run, FALSE, "none",
                           NoStats, 0)
    /\ vault' = Written(dry_run, vault, MainDirectories(vault))
    /\ DbCall("list_items", ListArgs(None, <<>>, AllItems))
    /\ sync' = [SyncIdle EXCEPT !.runs = sync.runs + 1, !.pc = "listed",
                                !.op = "sync_to_obsidian",
                                !.dry_run = dry_run, !.stats = SyncStats]
    /\ UNCHANGED connects

\* if not items: return stats
ItemsListed ==
    /\ sync.op = "sync_to_obsidian"
    /\ sync.pc = "listed"
    /\ stack = <<>>
    /\ IF db_ret.kind = "raise"
       THEN SyncRaises
       ELSE IF db_ret.value = <<>>
       THEN SyncReturns(sync.stats)
       ELSE /\ sync' = [sync EXCEPT !.items = db_ret.value,
                                    !.pc = "collections"]
            /\ UNCHANGED sync_ret
    /\ UNCHANGED <<clientvars, dbvars, vault>>
    /\ UNCHANGED connects

\* the collections by name, each with the items in it that are not
\* soft-deleted
CollectionsOf(store) ==
    [name \in UNION {store.items[i].collections : i \in DOMAIN store.items} |->
        {i \in DOMAIN store.items :
            /\ name \in store.items[i].collections
            /\ i \notin store.deletedItems}]

\* collections = _get_collections_with_items(zotero_db), on a connection of
\* its own and without a retry
GetCollections ==
    /\ sync.op = "sync_to_obsidian"
    /\ sync.pc = "collections"
    /\ \E out \in StepOutcomes :
        IF ~out.ok
        THEN SyncRaises
        ELSE /\ sync' = [sync EXCEPT !.collections = CollectionsOf(db),
                                     !.pc = "loop"]
             /\ UNCHANGED sync_ret
    /\ UNCHANGED <<clientvars, dbvars, vault>>
    /\ UNCHANGED connects

\* _get_item_collections
ItemCollections(item_id, collections) ==
    {name \in DOMAIN collections : item_id \in collections[name]}

\* item_dir.mkdir(exist_ok=True); paper_file.write_text(paper_content)
WithPaper(v, item, collections) ==
    LET dir == IF item.key \in DOMAIN v.papers THEN v.papers[item.key]
               ELSE PaperDir(NoPaperMd, <<>>, {})
        paper_md == PaperMd(item.itemID,
                            ItemCollections(item.itemID, collections))
    IN  [v EXCEPT !.papers =
            (item.key :> [dir EXCEPT !.paper_md = paper_md]) @@ @]

\* for item in items: _sync_paper up to the call of get_notes; after the
\* loop come the collection views
PaperLoop ==
    /\ sync.op = "sync_to_obsidian"
    /\ sync.pc = "loop"
    /\ IF sync.idx <= Len(sync.items)
       THEN LET item == sync.items[sync.idx]
            IN  IF item.key = <<>>
                THEN \* if not item_key: return None
                     /\ Advance(sync.stats)
                     /\ UNCHANGED <<clientvars, dbvars, vault, sync_ret>>
                ELSE /\ vault' = Written(sync.dry_run, vault,
                                         WithPaper(vault, item,
                                                   sync.collections))
                     /\ DbCall("get_notes",
                               DbArgs(item.itemID, <<>>, None, <<>>, 0))
                     /\ sync' = [sync EXCEPT !.pc = "notes"]
                     /\ UNCHANGED sync_ret
       ELSE /\ sync' = [sync EXCEPT !.pc = "views"]
            /\ UNCHANGED <<clientvars, dbvars, vault, sync_ret>>
    /\ UNCHANGED connects

\* the name of the file of the i-th note
NoteFilename(dir, clean_content, i, dry_run) ==
    LET first_line == Strip(FirstLine(clean_content))
        title == IF first_line # <<>> THEN Take(first_line, 50)
                 ELSE <<"n", "o", "t", "e", "-", i>>
        safe_title == SanitizeFilename(title)
        exists == \/ safe_title \in DOMAIN dir.notes
                  \/ safe_title = <<"p", "a", "p", "e", "r">>
    IN  IF exists /\ ~dry_run THEN safe_title \o <<"-", i>> ELSE safe_title

\* for i, note in enumerate(notes, 1): ... note_file.write_text(clean_content)
RECURSIVE WithNotes(_, _, _, _)
WithNotes(dir, notes, i, dry_run) ==
    IF i > Len(notes) THEN dir
    ELSE LET clean_content == StripHtmlTags(notes[i].content)
         IN  IF clean_content = <<>>
             THEN WithNotes(dir, notes, i + 1, dry_run)
             ELSE WithNotes(
                      [dir EXCEPT !.notes =
                          (NoteFilename(dir, clean_content, i, dry_run)
                              :> clean_content) @@ @],
                      notes, i + 1, dry_run)

\* the attachments shutil.copy2 copies: those the directory does not have
Copied(dir, item_id) == AttachmentFiles(item_id) \ dir.files

\* _sync_paper after get_notes: the files of the notes, the copies of the
\* attachments, and the statistics of the paper
NotesFetched ==
    /\ sync.op = "sync_to_obsidian"
    /\ sync.pc = "notes"
    /\ stack = <<>>
    /\ LET item == sync.items[sync.idx]
           notes == IF db_ret.kind = "raise" THEN <<>> ELSE db_ret.value
           dir == IF item.key \in DOMAIN vault.papers
                  THEN vault.papers[item.key]
                  ELSE PaperDir(NoPaperMd, <<>>, {})
           noted == WithNotes(dir, notes, 1, sync.dry_run)
           files_copied == IF sync.dry_run THEN {} ELSE Copied(dir, item.itemID)
           after == [vault EXCEPT !.papers =
                        (item.key :> [noted EXCEPT
                                         !.files = @ \cup files_copied]) @@ @]
       IN  /\ vault' = Written(sync.dry_run, vault, after)
           /\ Advance([sync.stats EXCEPT
                          !["papers_synced"] = @ + 1,
                          !["files_copied"] = @ + Cardinality(files_copied)])
    /\ UNCHANGED <<clientvars, dbvars, sync_ret>>
    /\ UNCHANGED connects

\* for collection_name, collection_data in collections.items():
\* _create_collection_view(...); return stats
CollectionViews ==
    /\ sync.op = "sync_to_obsidian"
    /\ sync.pc = "views"
    /\ LET names == DOMAIN sync.collections
           after == [vault EXCEPT !.views =
                        @ \cup {SanitizeFilename(n) : n \in names}]
       IN  /\ vault' = Written(sync.dry_run, vault, after)
           /\ SyncReturns([sync.stats EXCEPT
                              !["collections_created"] = Cardinality(names)])
    /\ UNCHANGED <<clientvars, dbvars>>
    /\ UNCHANGED connects

(* ------------------------- the vault and its library -------------------- *)

\* a library and a vault, beside a client that is not used
InitSync ==
    /\ max_retries = 3
    /\ retry_delay = 1
    /\ total_input_tokens = 0
    /\ total_output_tokens = 0
    /\ total_requests = 0
    /\ pc = "idle"
    /\ attempt = 0
    /\ last_error = NoError
    /\ delay = 0
    /\ ret = Ret("__init__", NoValue, "return", NoError, NoValue)
    /\ call_count = 0
    /\ sleep_calls = <<>>
    /\ trace = <<>>
    /\ last_created = NoOutcome
    /\ all_transient = TRUE
    /\ pre = Usage(0, 0, 0)
    /\ since_reset = Usage(0, 0, 0)
    /\ connects = NoConnects
    /\ db = ListStore
    /\ stack = <<>>
    /\ db_ret = DbRet("__init__", NoArgs, "return", NoDbError, NoValue,
                      0, <<>>, 0, TRUE, NoDbError, "")
    /\ db_pre = ListStore
    /\ open_conns = 0
    /\ added = <<>>
    /\ vault \in InitialVaults
    /\ sync = SyncIdle
    /\ sync_ret = [NoSyncRet EXCEPT !.vault_pre = vault, !.db_pre = ListStore]

\* the sync and sync-notes commands with every flag, and the steps of the
\* ZoteroDatabase operations they call
NextSync ==
    \/ \E dry_run \in BOOLEAN : SyncToObsidian(dry_run)
    \/ \E dry_run \in BOOLEAN, overwrite \in BOOLEAN :
          SyncNotesToZotero(dry_run, overwrite)
    \/ ItemsListed
    \/ GetCollections
    \/ PaperLoop
    \/ NotesFetched
    \/ CollectionViews
    \/ NoteLoop
    \/ ExistingNotes
    \/ NoteAdded
    \/ Connect
    \/ DbSleep
    \/ ListQuery
    \/ Enrich
    \/ SelectNotes
    \/ ParentCheck
    \/ SelectNoteType
    \/ InsertItem
    \/ InsertNote
    \/ Commit

SpecSync == InitSync /\ [][NextSync]_vars

(* ------------------------ vocabulary of the claims ----------------------- *)

Counters == Usage(total_requests, total_input_tokens, total_output_tokens)

Analyzing == ret.op = "analyze_paper"

PaperText == ret.args.paper_text

\* empty, or nothing but whitespace
OnlyWhitespace(t) == \A i \in 1..Len(t) : t[i] \in Whitespace

\* the latest endpoint invocation of the current call failed
LastFailed == Analyzing /\ call_count >= 1 /\ ~last_created.ok

\* the latest endpoint invocation of the current call succeeded
LastSucceeded == Analyzing /\ call_count >= 1 /\ last_created.ok

\* the call is over and nothing followed its latest endpoint invocation
EndedAtLastCreate ==
    /\ pc = "idle"
    /\ Len(trace) >= 1
    /\ trace[Len(trace)] = "create"

\* the call raised the failure of its latest endpoint invocation
RaisedLastFailure ==
    /\ pc = "idle"
    /\ ret.kind = "raise"
    /\ ret.exc = last_created.error
    /\ ret.exc.seq = call_count

(* -------------------------------- claims -------------------------------- *)

\* C1: a call of analyze_paper whose paper text is empty or only whitespace
\* has ended raising ValueError, with no endpoint invocation, no sleep and
\* the usage counters as they were, whatever max_retries and retry_delay are.
C1_EmptyTextRejected ==
    (Analyzing /\ OnlyWhitespace(PaperText)) =>
        /\ pc = "idle"
        /\ ret.kind = "raise"
        /\ ret.exc.cls = "ValueError"
        /\ call_count = 0
        /\ sleep_calls = <<>>
        /\ trace = <<>>
        /\ Counters = pre

C1_Witness ==
    /\ Analyzing
    /\ PaperText = <<"\n", " ">>
    /\ ret.kind = "raise"
    /\ max_retries = 3
    /\ total_requests = 1

\* C2: a paper text that is not empty after trimming is never rejected, and
\* with max_retries >= 1 it reaches the endpoint; when the first invocation
\* returns a response the call has ended with exactly that one invocation and
\* no sleep, its result carries the response's token counts, model and stop
\* reason, and the counters are the ones before the call plus one request and
\* the response's token counts.
C2_FirstAttemptSuccess ==
    /\ (Analyzing /\ ~OnlyWhitespace(PaperText)) =>
           /\ ret.exc.cls # "ValueError"
           /\ max_retries >= 1 => (call_count >= 1 \/ pc = "create")
    /\ (LastSucceeded /\ call_count = 1) =>
           /\ ~OnlyWhitespace(PaperText)
           /\ pc = "idle"
           /\ ret.kind = "return"
           /\ trace = <<"create">>
           /\ sleep_calls = <<>>
           /\ ret.value.input_tokens = last_created.response.input_tokens
           /\ ret.value.output_tokens = last_created.response.output_tokens
           /\ ret.value.model = last_created.response.model
           /\ ret.value.finish_reason = last_created.response.stop_reason
           /\ total_requests = pre.requests + 1
           /\ total_input_tokens =
                  pre.input_tokens + last_created.response.input_tokens
           /\ total_output_tokens =
                  pre.output_tokens + last_created.response.output_tokens

C2_Witness ==
    /\ LastSucceeded
    /\ call_count = 1
    /\ PaperText = <<" ", "a", "\n">>
    /\ ret.kind = "return"
    /\ ret.value.input_tokens = 1000
    /\ ret.value.output_tokens = 500
    /\ ret.value.finish_reason = "max_tokens"
    /\ pre.requests = 1
    /\ total_requests = 2

\* C3: invocations and sleeps alternate, beginning with an invocation; the
\* sleep before invocation n (n >= 2) lasts retry_delay * 2^(n-2); after a
\* transient failure of invocation k < max_retries the call goes on (it
\* sleeps, then invokes again); and when invocation k+1 returns a response
\* after k transient failures the call has returned after exactly k+1
\* invocations and k sleeps.
C3_BackoffSchedule ==
    Analyzing =>
        /\ \A i \in 1..Len(trace) :
               trace[i] = IF i % 2 = 1 THEN "create" ELSE "sleep"
        /\ \A n \in 2..(Len(sleep_calls) + 1) :
               sleep_calls[n - 1] = retry_delay * 2^(n - 2)
        /\ (LastFailed /\ all_transient /\ call_count < max_retries) =>
               \/ /\ pc = "sleep"
                  /\ Len(sleep_calls) = call_count - 1
                  /\ Len(trace) = 2 * call_count - 1
                  /\ delay = retry_delay * 2^(call_count - 1)
               \/ /\ pc = "create"
                  /\ Len(sleep_calls) = call_count
                  /\ Len(trace) = 2 * call_count
        /\ (LastSucceeded /\ all_transient) =>
               /\ pc = "idle"
               /\ ret.kind = "return"
               /\ call_count <= max_retries
               /\ Len(sleep_calls) = call_count - 1
               /\ Len(trace) = 2 * call_count - 1

C3_Witness ==
    /\ LastSucceeded
    /\ all_transient
    /\ ret.kind = "return"
    /\ retry_delay = 3
    /\ call_count = 4
    /\ sleep_calls = <<3, 6, 12>>
    /\ trace = <<"create", "sleep", "create", "sleep", "create", "sleep", "create">>

\* C4: the endpoint is never invoked more than max_retries times; when every
\* invocation of a call failed with a rate-limit, connection or 5xx failure
\* and max_retries invocations were made, the call has ended by raising, and
\* a call that raised after such failures made exactly max_retries
\* invocations and max_retries - 1 sleeps, none after the last invocation.
C4_AttemptBudget ==
    Analyzing =>
        /\ call_count <= max_retries
        /\ (LastFailed /\ all_transient /\ call_count = max_retries) =>
               /\ ret.kind = "raise"
               /\ EndedAtLastCreate
        /\ (LastFailed /\ all_transient /\ ret.kind = "raise") =>
               /\ call_count = max_retries
               /\ Len(sleep_calls) = max_retries - 1
               /\ EndedAtLastCreate

C4_Witness ==
    /\ LastFailed
    /\ all_transient
    /\ ret.kind = "raise"
    /\ max_retries = 3
    /\ call_count = 3
    /\ Len(sleep_calls) = 2
    /\ Classify(ret.exc) = "ConnectionFailed"

\* C5: when an endpoint invocation fails with a 4xx client error the call has
\* ended: it raised that failure, and neither a sleep nor an invocation
\* followed; a 4xx on the first invocation means one invocation and no sleep.
C5_ClientErrorNotRetried ==
    (LastFailed /\ Classify(last_created.error) = "ClientError") =>
        /\ RaisedLastFailure
        /\ EndedAtLastCreate
        /\ Len(sleep_calls) = call_count - 1
        /\ call_count = 1 => (trace = <<"create">> /\ sleep_calls = <<>>)

C5_Witness ==
    /\ LastFailed
    /\ last_created.error.status_code = 400
    /\ ret.kind = "raise"
    /\ max_retries = 4
    /\ call_count = 1
    /\ sleep_calls = <<>>

C5_WitnessLater ==
    /\ LastFailed
    /\ Classify(last_created.error) = "ClientError"
    /\ ret.kind = "raise"
    /\ max_retries = 4
    /\ call_count = 2

\* C6: when an endpoint invocation fails with a ClientError or an Other
\* failure (neither rate-limit, nor connection, nor 5xx) the call has ended
\* raising that failure, with neither a sleep nor an invocation after it.
C6_ClientAndOtherNotRetried ==
    (LastFailed /\ Classify(last_created.error) \in {"ClientError", "Other"}) =>
        /\ RaisedLastFailure
        /\ EndedAtLastCreate

\* C7: a call that raised after its retries were exhausted (max_retries
\* invocations made) raised the failure of the last invocation, with that
\* failure's class and status, not the failure of an earlier invocation.
C7_LastFailurePropagates ==
    (LastFailed /\ pc = "idle" /\ call_count = max_retries) =>
        /\ ret.kind = "raise"
        /\ ret.exc = last_created.error
        /\ ret.exc.seq = call_count
        /\ Classify(ret.exc) = Classify(last_created.error)

C7_Witness ==
    /\ LastFailed
    /\ all_transient
    /\ pc = "idle"
    /\ max_retries = 3
    /\ call_count = 3
    /\ ret.kind = "raise"
    /\ Classify(ret.exc) = "ServerError"
    /\ ret.exc.seq = 3

\* C8: while a call of analyze_paper runs, and after it has raised, the three
\* usage counters are the ones the call began with; after it has returned
\* they are those plus one request and the token counts of the one response,
\* however many invocations failed before.
C8_CountersOnlyOnSuccess ==
    Analyzing =>
        /\ ret.kind \in {"running", "raise"} => Counters = pre
        /\ ret.kind = "return" =>
               Counters =
                   Usage(pre.requests + 1,
                         pre.input_tokens + last_created.response.input_tokens,
                         pre.output_tokens + last_created.response.output_tokens)

C8_Witness ==
    /\ Analyzing
    /\ ret.kind = "raise"
    /\ call_count = 3
    /\ pre.requests = 1
    /\ Counters = pre

C8_WitnessSuccess ==
    /\ Analyzing
    /\ ret.kind = "return"
    /\ call_count = 3
    /\ pre.requests = 1
    /\ total_requests = 2

\* C9: the counters equal the number of analyze_paper calls that returned
\* since the last reset (or construction) and the sums of their token counts;
\* the dict of get_usage_stats shows the counters as they are once it has
\* returned, with total_tokens their input + output; after reset_usage_stats
\* the three counters are 0.
C9_UsageAccounting ==
    /\ Counters = since_reset
    /\ ret.op = "get_usage_stats" =>
           /\ ret.value.total_requests = total_requests
           /\ ret.value.total_input_tokens = total_input_tokens
           /\ ret.value.total_output_tokens = total_output_tokens
           /\ ret.value.total_tokens = total_input_tokens + total_output_tokens
    /\ ret.op = "reset_usage_stats" => Counters = Usage(0, 0, 0)

C9_Witness ==
    /\ ret.op = "get_usage_stats"
    /\ ret.value.total_requests = 2
    /\ ret.value.total_input_tokens = 2000
    /\ ret.value.total_output_tokens = 1000
    /\ ret.value.total_tokens = 3000

C9_WitnessReset ==
    /\ ret.op = "reset_usage_stats"
    /\ pre.requests = 1
    /\ last_created.ok
    /\ Counters = Usage(0, 0, 0)

\* C10: estimate_tokens(text) is the largest k with 4k <= len(text): 0 below
\* four characters, 1 for "test", 25 for 100 characters; it depends on the
\* text alone and leaves the counters and the configuration as they were.
C10_EstimateIsFloorOfQuarter ==
    ret.op = "estimate_tokens" =>
        LET n == Len(ret.args.text)
            k == ret.value.tokens
        IN  /\ 4 * k <= n
            /\ n < 4 * k + 4
            /\ n < 4 => k = 0
            /\ ret.args.text = <<"t", "e", "s", "t">> => k = 1
            /\ n = 100 => k = 25
            /\ Counters = pre
            /\ Counters = since_reset
            /\ pc = "idle"

C10_Witness ==
    /\ ret.op = "estimate_tokens"
    /\ Len(ret.args.text) = 100
    /\ ret.value.tokens = 25
    /\ total_requests = 1
    /\ total_input_tokens = 2

(* ------------------ vocabulary of the record-store claims ---------------- *)

\* the caller's call has ended
DbEnded ==
    stack = <<>> /\ db_ret.op # "__init__" /\ db_ret.kind \in {"return", "raise"}

DbReturned == DbEnded /\ db_ret.kind = "return"

DbRaised == DbEnded /\ db_ret.kind = "raise"

\* the caller's call, while it runs
Outer == stack[1]

\* the steps of an operation in its own connection
OwnSteps(op) ==
    CASE op = "add_note" ->
            {"connect", "parent_check", "note_type", "insert_item",
             "insert_note", "commit"}
      [] op = "get_notes" -> {"connect", "select_notes"}
      [] op = "get_item" ->
            {"connect", "select_item", "item_metadata", "pdf_path"}
      [] op = "search_items" -> {"connect", "search_query"}
      [] op = "list_items" -> {"connect", "list_query", "enrich"}
      [] OTHER -> {}

\* the failure reached the wrapper of the caller's call from the operation
\* itself, not from a get_item call made while hydrating search results
OwnFailure == db_ret.func_exc.cls # "ZoteroDatabaseLockError"

(* C11: for each of the five operations, if the engine reports a lock/busy  *)
(* condition on every attempt, wherever in the operation it is raised, the  *)
(* operation is attempted exactly 6 times and then fails with               *)
(* ZoteroDatabaseLockError.                                                  *)
C11_PersistentLockExhaustsBudget ==
    (DbEnded /\ db_ret.all_locked /\ OwnFailure) =>
        /\ db_ret.kind = "raise"
        /\ db_ret.calls = DbMaxRetries + 1
        /\ db_ret.exc.cls = "ZoteroDatabaseLockError"

RECURSIVE Power(_, _)
Power(b, n) == IF n = 0 THEN 1 ELSE b * Power(b, n - 1)

\* the time.sleep arguments of a call are the first delays of the schedule,
\* one for each invocation of func but the last
OnSchedule(sleeps, calls) ==
    /\ Len(sleeps) = calls - 1
    /\ \A a \in 0..(Len(sleeps) - 1) :
        sleeps[a + 1] = DbInitialDelay * Power(DbBackoffFactor, a)

(* C12: the delay after the failed attempt with 0-based index a is          *)
(* initial_delay * backoff_factor^a (1, 2, 4, 8, 16 tenths of a second);    *)
(* there are as many delays as retried attempts, none before the first      *)
(* attempt and none after the last.                                          *)
C12_LockBackoffSchedule ==
    /\ \A k \in 1..Len(stack) : OnSchedule(stack[k].sleeps, stack[k].calls)
    /\ DbEnded =>
        /\ OnSchedule(db_ret.sleeps, db_ret.calls)
        /\ Len(db_ret.sleeps) <= DbMaxRetries

C12_Witness ==
    /\ DbRaised
    /\ db_ret.calls = DbMaxRetries + 1
    /\ db_ret.sleeps = <<1, 2, 4, 8, 16>>

C12_WitnessReturn ==
    /\ DbReturned
    /\ db_ret.sleeps = <<1, 2, 4>>

\* e is not a lock/busy condition: an engine error whose message mentions
\* neither 'locked' nor 'busy', or an exception that is no engine error
NotLockFailure(e) ==
    /\ e # NoDbError
    /\ DbIsSubclass(e.cls, "sqlite3.Error") => ~IsLockMessage(e.msg)

(* C13: in the retry wrapper a failure that is not a lock/busy condition is *)
(* never retried: no delay follows it, the exception func raised is the one *)
(* the caller gets, and when it is the first failure of the call func was   *)
(* invoked exactly once and time.sleep not at all.                          *)
C13_OtherFailuresNotRetried ==
    /\ \A k \in 1..Len(stack) :
        stack[k].pc = "sleep" => ~NotLockFailure(stack[k].last_error)
    /\ (DbRaised /\ NotLockFailure(db_ret.func_exc)) =>
        /\ db_ret.exc = db_ret.func_exc
        /\ Len(db_ret.sleeps) = db_ret.busy
        /\ db_ret.busy = 0 => (db_ret.calls = 1 /\ db_ret.sleeps = <<>>)

C13_Witness ==
    /\ DbRaised
    /\ db_ret.func_exc.cls = "sqlite3.OperationalError"
    /\ db_ret.func_exc.msg = MsgNoTable
    /\ db_ret.calls = 1

C13_WitnessParent ==
    /\ DbRaised
    /\ db_ret.func_exc = ParentNotFound
    /\ db_ret.calls = 1

C13_WitnessLater ==
    /\ DbRaised
    /\ NotLockFailure(db_ret.func_exc)
    /\ db_ret.calls = 3

(* C14: when add_note meets a busy/locked signal on its first j attempts    *)
(* (1 <= j <= 5), at the parent lookup, an insert or the commit, and the    *)
(* lock is then released, add_note returns a new note id: it never ends in  *)
(* a failure caused by a lock signal before it has met 6 of them.           *)
C14_BusyThenReleasedSucceeds ==
    (DbRaised /\ db_ret.op = "add_note" /\ EngineLock(db_ret.func_exc)) =>
        db_ret.busy = DbMaxRetries + 1

AddingNote == db_ret.op = "add_note"

NewItems == DOMAIN db.items \ DOMAIN db_pre.items

NewNotes == db.itemNotes \ db_pre.itemNotes

(* C15: under every interleaving of lock failures and retries one add_note  *)
(* call commits at most one note: after a successful return the store has   *)
(* exactly one new item row and one new note-content row, after a failure   *)
(* none, and every attempt starts on the store as it was before the call    *)
(* with nothing pending.                                                     *)
C15_AtMostOneNotePerCall ==
    /\ (DbReturned /\ AddingNote) =>
        /\ Cardinality(NewItems) = 1
        /\ Cardinality(NewNotes) = 1
    /\ (DbRaised /\ AddingNote) => (NewItems = {} /\ NewNotes = {})
    /\ (stack # <<>> /\ Outer.op = "add_note") =>
        /\ NewItems = {} /\ NewNotes = {}
        /\ Outer.pc \in {"connect", "sleep"} =>
            (Outer.conn.new_items = <<>> /\ Outer.conn.new_notes = {})

C15_Witness ==
    /\ DbReturned /\ AddingNote
    /\ db_ret.busy >= 2
    /\ Cardinality(NewItems) = 1

C15_WitnessFailed ==
    /\ DbRaised /\ AddingNote
    /\ db_ret.at = "commit"

\* id references a record that exists and is not soft-deleted
LiveRecord(store, id) ==
    id \in DOMAIN store.items /\ id \notin store.deletedItems

\* add_note is past its parent check
PastParentCheck ==
    /\ stack # <<>>
    /\ Outer.op = "add_note"
    /\ Outer.pc \in {"note_type", "insert_item", "insert_note", "commit"}

(* C16: add_note with a parent id that references no record, or a           *)
(* soft-deleted one, never gets past its parent check: unless the engine    *)
(* fails first, it ends with ValueError on the attempt that reaches the     *)
(* check and is not retried (one attempt when no lock came first); it       *)
(* performs no insert and leaves items and itemNotes unchanged, so that     *)
(* get_notes of that parent returns no note.                                 *)
C16_MissingParentRejected ==
    /\ PastParentCheck => LiveRecord(db_pre, Outer.args.item_id)
    /\ (DbEnded /\ AddingNote /\ ~LiveRecord(db_pre, db_ret.args.item_id)) =>
        /\ db_ret.kind = "raise"
        /\ db.items = db_pre.items /\ db.itemNotes = db_pre.itemNotes
        /\ db_ret.at \in {"connect", "parent_check"}
        /\ db_ret.func_exc.origin = "" =>
            /\ db_ret.exc = ParentNotFound
            /\ Len(db_ret.sleeps) = db_ret.busy
            /\ db_ret.calls = db_ret.busy + 1
    /\ (DbReturned /\ db_ret.op = "get_notes"
            /\ ~LiveRecord(db, db_ret.args.item_id)) =>
        db_ret.value = <<>>

C16_Witness ==
    /\ DbRaised /\ AddingNote
    /\ db_ret.args.item_id = 2
    /\ db_ret.exc = ParentNotFound
    /\ db_ret.calls = 1
    /\ db_ret.sleeps = <<>>

C16_WitnessAbsent ==
    /\ DbRaised /\ AddingNote
    /\ db_ret.args.item_id = 9
    /\ db_ret.exc = ParentNotFound
    /\ db_ret.calls = 1

C16_WitnessRead ==
    /\ DbReturned /\ db_ret.op = "get_notes"
    /\ db_ret.args.item_id = 2
    /\ db_ret.value = <<>>

BlankLine == <<"\n", "\n">>

\* the content the note is to have: the title, a blank line and the body,
\* with "AI Analysis" as the title when none is supplied or it is empty
ContentFor(args) ==
    IF args.title.given /\ args.title.text # <<>>
    THEN args.title.text \o BlankLine \o args.content
    ELSE DefaultTitle \o BlankLine \o args.content

\* the same with "AI Analysis" only when no title is supplied
ContentForAnyTitle(args) ==
    IF args.title.given
    THEN args.title.text \o BlankLine \o args.content
    ELSE DefaultTitle \o BlankLine \o args.content

ReadingNotes == DbReturned /\ db_ret.op = "get_notes"

\* get_notes returned the note of the add_note call a with this content
ReadBack(a, content) ==
    \E i \in 1..Len(db_ret.value) :
        /\ db_ret.value[i].itemID = a.id
        /\ db_ret.value[i].content = content

FreshId ==
    (DbReturned /\ AddingNote) =>
        /\ db_ret.value \notin DOMAIN db_pre.items
        /\ db_ret.value \in DOMAIN db.items
        /\ added[Len(added)].id = db_ret.value

(* C17 (as stated): for every live parent, body and title, get_notes after  *)
(* a successful add_note returns a note with the returned id whose content  *)
(* is exactly title + "\n\n" + body, with "AI Analysis" as first line when  *)
(* no title is supplied; the returned id differs from every id present      *)
(* before the call.                                                           *)
C17_ContentIsTitleThenBody ==
    /\ ReadingNotes =>
        \A k \in 1..Len(added) :
            added[k].args.item_id = db_ret.args.item_id =>
                ReadBack(added[k], ContentForAnyTitle(added[k].args))
    /\ FreshId

(* C17 (amended): the same for every non-empty title; an empty title is     *)
(* treated as no title and gives "AI Analysis" as first line.               *)
C17_ContentIsTitleOrDefaultThenBody ==
    /\ ReadingNotes =>
        \A k \in 1..Len(added) :
            added[k].args.item_id = db_ret.args.item_id =>
                ReadBack(added[k], ContentFor(added[k].args))
    /\ (DbReturned /\ AddingNote) =>
        \E n \in db.itemNotes :
            /\ n.itemID = db_ret.value
            /\ n.parentItemID = db_ret.args.item_id
            /\ n.note = ContentFor(db_ret.args)
    /\ FreshId

C17_Witness ==
    /\ ReadingNotes
    /\ Len(added) = 1
    /\ added[1].args.title = Some(<<"M", "y">>)
    /\ ReadBack(added[1], <<"M", "y", "\n", "\n", "b">>)

C17_WitnessEmptyTitle ==
    /\ ReadingNotes
    /\ Len(added) = 1
    /\ added[1].args.title = Some(<<>>)
    /\ ReadBack(added[1], DefaultTitle \o <<"\n", "\n", "b">>)

C17_WitnessNoTitle ==
    /\ ReadingNotes
    /\ Len(added) = 1
    /\ added[1].args.title = None
    /\ ReadBack(added[1], DefaultTitle \o <<"\n", "\n", "b">>)

(* C18: a successful add_note changes the store only by adding the new      *)
(* note's item row and note-content row: the parent's dateModified and      *)
(* every other row that was there before (items, notes, deletion markers)   *)
(* are unchanged.                                                             *)
C18_OnlyTheNoteIsAdded ==
    (DbReturned /\ AddingNote) =>
        /\ \A i \in DOMAIN db_pre.items :
            i \in DOMAIN db.items /\ db.items[i] = db_pre.items[i]
        /\ db_pre.itemNotes \subseteq db.itemNotes
        /\ db.deletedItems = db_pre.deletedItems
        /\ NewItems = {db_ret.value}
        /\ \A n \in NewNotes : n.itemID = db_ret.value

C18_Witness ==
    /\ DbReturned /\ AddingNote
    /\ db.items[db_ret.value].dateModified = 6
    /\ db.items[db_ret.args.item_id].dateModified = 3
    /\ NewNotes # {}

\* every note's item row has its note-content row and the reverse
NotesPaired(store) ==
    /\ \A i \in DOMAIN store.items :
        store.items[i].typeName = "note" =>
            \E n \in store.itemNotes : n.itemID = i
    /\ \A n \in store.itemNotes :
        /\ n.itemID \in DOMAIN store.items
        /\ store.items[n.itemID].typeName = "note"

\* what the attempt of add_note in progress has inserted and not committed
PendingItems == DOMAIN Outer.conn.new_items

PendingNotes == Outer.conn.new_notes

(* C19: add_note is atomic: in an attempt the item row is inserted before   *)
(* the note-content row and both before the commit, and a failure at any    *)
(* step before the commit, also between the two inserts, leaves nothing of  *)
(* the attempt: the committed store never holds a note's item row without   *)
(* its note-content row, nor the reverse.                                    *)
C19_AddNoteIsAtomic ==
    /\ NotesPaired(db)
    /\ (stack # <<>> /\ Outer.op = "add_note") =>
        /\ Outer.pc \in {"connect", "parent_check", "note_type",
                         "insert_item", "sleep"} =>
            (PendingItems = {} /\ PendingNotes = {})
        /\ Outer.pc = "insert_note" =>
            (PendingItems = {Outer.loc.note_item_id} /\ PendingNotes = {})
        /\ Outer.pc = "commit" =>
            /\ PendingItems = {Outer.loc.note_item_id}
            /\ \A n \in PendingNotes : n.itemID = Outer.loc.note_item_id
            /\ PendingNotes # {}
        /\ db = db_pre
    /\ (DbRaised /\ AddingNote) => db = db_pre

C19_Witness ==
    /\ DbRaised /\ AddingNote
    /\ db_ret.at = "insert_note"
    /\ db = db_pre

C19_WitnessCommitted ==
    /\ DbReturned /\ AddingNote
    /\ NotesPaired(db)
    /\ db # db_pre

\* the connections the calls in progress hold open
HeldOpen == {k \in 1..Len(stack) : stack[k].conn.open}

(* C20: connections are scoped: every exit of an attempt (return,           *)
(* ValueError, lock failure, any other exception) closes the connection the *)
(* attempt opened, and each attempt opens a new one; at most one connection *)
(* is open at any time, none between calls, none during a retry delay and   *)
(* none while search_items hydrates its results.                             *)
C20_ConnectionsAreScoped ==
    /\ open_conns = Cardinality(HeldOpen)
    /\ open_conns <= 1
    /\ stack = <<>> => open_conns = 0
    /\ \A k \in 1..Len(stack) :
        /\ stack[k].pc \in {"connect", "sleep", "hydrate"} =>
            ~stack[k].conn.open
        /\ stack[k].pc = "sleep" => open_conns = 0
        /\ k < Len(stack) => ~stack[k].conn.open

C20_Witness ==
    /\ Len(stack) = 2
    /\ stack[1].op = "search_items"
    /\ stack[2].attempt >= 1
    /\ stack[2].conn.open
    /\ open_conns = 1

C20_WitnessSleep ==
    /\ stack # <<>>
    /\ Outer.op = "add_note"
    /\ Outer.pc = "sleep"
    /\ open_conns = 0

C20_WitnessLocked ==
    /\ DbRaised
    /\ db_ret.exc.cls = "ZoteroDatabaseLockError"
    /\ db_ret.at # "connect"
    /\ open_conns = 0

GettingItem == db_ret.op = "get_item"

(* C21: get_item(id) returns None exactly when no record has that id or the *)
(* record is soft-deleted; otherwise it returns a record whose itemID is    *)
(* id; for a missing or soft-deleted id it returns no partial object and    *)
(* raises nothing of its own: it fails only when the engine does.           *)
C21_GetItemNoneIffNotLive ==
    /\ (DbReturned /\ GettingItem) =>
        /\ db_ret.value = NoValue <=> ~LiveRecord(db, db_ret.args.item_id)
        /\ db_ret.value # NoValue =>
            /\ db_ret.value.itemID = db_ret.args.item_id
            /\ db_ret.value.key = db.items[db_ret.args.item_id].key
            /\ db_ret.value.dateModified =
                   db.items[db_ret.args.item_id].dateModified
    /\ (DbRaised /\ GettingItem) =>
        /\ db_ret.func_exc.origin # ""
        /\ ~LiveRecord(db, db_ret.args.item_id) =>
            db_ret.at \in {"connect", "select_item"}

C21_Witness ==
    /\ DbReturned /\ GettingItem
    /\ db_ret.args.item_id = 2
    /\ db_ret.value = NoValue

C21_WitnessAbsent ==
    /\ DbReturned /\ GettingItem
    /\ db_ret.args.item_id = 9
    /\ db_ret.value = NoValue

C21_WitnessFound ==
    /\ DbReturned /\ GettingItem
    /\ db_ret.args.item_id = 4
    /\ db_ret.value # NoValue

(* C22: no note created by add_note is an orphan: under every interleaving  *)
(* with an external writer that soft-deletes or removes the parent, the     *)
(* note add_note commits references a parent that exists and is not         *)
(* soft-deleted at the moment of the commit.                                 *)
C22_NoOrphanAtCommit ==
    [][added' # added =>
        LiveRecord(db', added'[Len(added')].args.item_id)]_vars

Building == ret.op = "build" /\ ret.kind # "none"

(* C23: for each of the six prompt types, every paper text and every        *)
(* metadata mapping, build returns a prompt that contains the paper text    *)
(* verbatim, also when the paper text contains "{metadata}", "{paper_text}" *)
(* or "{custom_instructions}".                                               *)
C23_PromptContainsPaperText ==
    Building =>
        /\ ret.kind = "return"
        /\ Contains(ret.value.prompt, ret.args.paper_text)

C23_Witness ==
    /\ Building
    /\ ret.args.prompt_type = "citation_analysis"
    /\ ret.args.paper_text = <<"{">> \o FieldCustomInstructions \o <<"}">>
    /\ ret.args.custom_instructions # None
    /\ ret.kind = "return"

Listing == DbReturned /\ db_ret.op = "list_items"

\* a collection is given by its name, which is not the empty string
CollectionGiven ==
    db_ret.args.collection.given /\ db_ret.args.collection.text # <<>>

\* the records list_items is to return, in the words of its contract: not
\* soft-deleted, neither attachment nor note, in the collection when one is
\* given, and carrying every tag asked for
Eligible(i) ==
    /\ LiveRecord(db, i)
    /\ db.items[i].typeName \notin {"attachment", "note"}
    /\ CollectionGiven =>
          db_ret.args.collection.text \in db.items[i].collections
    /\ \A k \in 1..Len(db_ret.args.tags) :
          db_ret.args.tags[k] \in db.items[i].tags

EligibleIds == {i \in DOMAIN db.items : Eligible(i)}

ListedIds == {db_ret.value[k].itemID : k \in 1..Len(db_ret.value)}

\* what list_items returns is eligible, within the limit, without repeats
\* and newest first
C24_ListedAreEligibleInOrder ==
    Listing =>
        /\ \A k \in 1..Len(db_ret.value) : Eligible(db_ret.value[k].itemID)
        /\ Len(db_ret.value) <= db_ret.args.limit
        /\ \A j, k \in 1..Len(db_ret.value) :
              /\ j # k => db_ret.value[j].itemID # db_ret.value[k].itemID
              /\ j < k => db_ret.value[j].dateModified
                             >= db_ret.value[k].dateModified

(* C24: list_items returns only records that are not soft-deleted, neither  *)
(* attachments nor notes, carry every tag of the filter and belong to the   *)
(* collection when one is given; at most limit records, each identifier at  *)
(* most once, newest modification first; and every such record is returned  *)
(* when their number does not exceed limit.                                  *)
C24_ListItemsReturnsTheEligible ==
    /\ C24_ListedAreEligibleInOrder
    /\ (Listing /\ Cardinality(EligibleIds) <= db_ret.args.limit) =>
          ListedIds = EligibleIds

SyncCalled == sync_ret.op \in {"sync_to_obsidian", "sync_notes_to_zotero"}

SyncReturned == SyncCalled /\ sync_ret.kind = "return"

NotesSynced(dry_run, overwrite) ==
    /\ sync_ret.op = "sync_notes_to_zotero"
    /\ sync_ret.kind = "return"
    /\ sync_ret.dry_run = dry_run
    /\ sync_ret.overwrite = overwrite

\* the notes of an item whose first line is the title
NotesTitled(store, item_id, title) ==
    {n \in NoteRows(store, item_id) : FirstLine(n.note) = title}

(* C25: with dry-run enabled, from the call of sync_to_obsidian or           *)
(* sync_notes_to_zotero on, the vault and the record store stay what they   *)
(* were when the call began, and add_note is not called.                    *)
C25_DryRunChangesNothing ==
    (SyncCalled /\ sync_ret.dry_run) =>
        /\ vault = sync_ret.vault_pre
        /\ db = sync_ret.db_pre
        /\ sync.adds = 0
        /\ sync_ret.adds = 0
        /\ \A k \in 1..Len(stack) : stack[k].op # "add_note"

\* a dry run of sync that went through two papers on a vault never synced
C25_Witness ==
    /\ SyncReturned
    /\ sync_ret.op = "sync_to_obsidian"
    /\ sync_ret.dry_run
    /\ sync_ret.stats["papers_synced"] = 2
    /\ vault = EmptyVault

\* a dry run of sync-notes that counted a note it would have added
C25_WitnessNotes ==
    /\ NotesSynced(TRUE, FALSE)
    /\ sync_ret.stats["notes_synced"] = 1
    /\ db = ListStore

\* sync without dry-run does write: directories, paper.md, a note file, a
\* copy of the attachment and a collection view
C25_WitnessWritten ==
    /\ SyncReturned
    /\ sync_ret.op = "sync_to_obsidian"
    /\ ~sync_ret.dry_run
    /\ sync_ret.vault_pre = EmptyVault
    /\ sync_ret.stats["files_copied"] = 1
    /\ vault.views # {}
    /\ <<"n">> \in DOMAIN vault.papers[<<"K", 0, 1>>].notes

\* the vault notes of the last sync-notes call that went to an item of the
\* library
SyncedNotes == {n \in NotesToSync(vault) : LiveRecord(db, n.zotero_id)}

(* C26: sync-notes identifies a note by its title. Without --overwrite a    *)
(* vault note whose title is the first line of a note of the item is        *)
(* skipped and nothing is added for it, so a second run right after a run   *)
(* adds nothing; with --overwrite the note of that title is updated, so     *)
(* after the run the item has exactly one note of that title.               *)
C26_NotesIdentifiedByTitle ==
    /\ (/\ NotesSynced(FALSE, FALSE)
        /\ sync_ret.prev.op = "sync_notes_to_zotero"
        /\ ~sync_ret.prev.dry_run
        /\ sync_ret.prev.clean) => sync_ret.adds = 0
    /\ (NotesSynced(FALSE, TRUE) /\ sync_ret.stats["errors"] = <<>>) =>
          \A n \in SyncedNotes :
              Cardinality(NotesTitled(db, n.zotero_id, n.note_title)) = 1

\* the half of C26 without --overwrite
C26_SecondRunAddsNothing ==
    (/\ NotesSynced(FALSE, FALSE)
     /\ sync_ret.prev.op = "sync_notes_to_zotero"
     /\ ~sync_ret.prev.dry_run
     /\ sync_ret.prev.clean) => sync_ret.adds = 0

C26_WitnessSecondRun ==
    /\ NotesSynced(FALSE, FALSE)
    /\ sync_ret.prev.op = "sync_notes_to_zotero"
    /\ ~sync_ret.prev.dry_run
    /\ sync_ret.prev.clean
    /\ sync_ret.vault_pre.repo
    /\ sync_ret.stats["notes_skipped"] = 1
    /\ Cardinality(db.itemNotes) = 2

(* C30: every return of sync_notes_to_zotero yields statistics with the     *)
(* three fields notes_synced, notes_skipped and errors.                     *)
C30_StatsHaveAllFields ==
    (sync_ret.op = "sync_notes_to_zotero" /\ sync_ret.kind = "return") =>
        {"notes_synced", "notes_skipped", "errors"} \subseteq
            DOMAIN sync_ret.stats

\* the returns after the scan do carry the three fields
C30_StatsAfterScan ==
    (/\ sync_ret.op = "sync_notes_to_zotero"
     /\ sync_ret.kind = "return"
     /\ sync_ret.vault_pre.repo) =>
        DOMAIN sync_ret.stats = {"notes_synced", "notes_skipped", "errors"}

\* the call of analyze_paper has ended
AnalyzeEnded == Analyzing /\ pc = "idle"

\* the failure is a rate-limit or a connection failure
RateOrConnection(e) == Classify(e) \in {"RateLimited", "ConnectionFailed"}

(* C27: rate-limit and connection failures come before the status test: a   *)
(* rate-limit failure (status 429) and a connection failure (no status) are *)
(* retried while attempts are left and propagate only from the last         *)
(* attempt; a call that ended on a failure with attempts left ended on a    *)
(* failure that is neither, i.e. a 4xx or a failure no clause catches.      *)
C27_RateLimitAndConnectionBeforeStatus ==
    /\ (LastFailed /\ RateOrConnection(last_created.error)) =>
          /\ call_count < max_retries => pc # "idle"
          /\ pc = "idle" => (call_count = max_retries /\ RaisedLastFailure)
    /\ (LastFailed /\ pc = "idle" /\ call_count < max_retries) =>
          /\ ~RateOrConnection(last_created.error)
          /\ \/ Classify(last_created.error) = "ClientError"
             \/ ~IsSubclass(last_created.error.cls, "APIError")

C27_Witness ==
    /\ LastFailed
    /\ last_created.error.cls = "RateLimitError"
    /\ last_created.error.status_code = 429
    /\ call_count = 1
    /\ max_retries = 3
    /\ pc = "sleep"

C27_WitnessConnection ==
    /\ LastFailed
    /\ last_created.error.cls = "APIConnectionError"
    /\ ~last_created.error.has_status_code
    /\ call_count = 2
    /\ max_retries = 3
    /\ pc = "create"

C27_WitnessClient ==
    /\ LastFailed
    /\ pc = "idle"
    /\ call_count = 1
    /\ max_retries = 3
    /\ last_created.error.status_code = 499

(* C28: with max_retries >= 1 an ended analyze_paper call on a non-empty   *)
(* text made between 1 and max_retries endpoint invocations and returned a  *)
(* result or raised the failure of an invocation; with max_retries = 0 it   *)
(* made no invocation and raised an error that is no endpoint failure.      *)
C28_AttemptsWithinBudgetOrNone ==
    (AnalyzeEnded /\ ~OnlyWhitespace(PaperText)) =>
        /\ max_retries >= 1 =>
              /\ call_count >= 1
              /\ call_count <= max_retries
              /\ \/ ret.kind = "return"
                 \/ /\ ret.kind = "raise"
                    /\ ret.exc \in EndpointErrors(call_count)
        /\ max_retries = 0 =>
              /\ call_count = 0
              /\ ret.kind = "raise"
              /\ ret.exc.seq = 0
              /\ \A n \in 0..MaxRetriesCfg : ret.exc \notin EndpointErrors(n)

C28_Witness ==
    /\ AnalyzeEnded
    /\ ~OnlyWhitespace(PaperText)
    /\ max_retries = 0
    /\ ret.kind = "raise"
    /\ ret.exc.cls = "TypeError"
    /\ call_count = 0

C28_WitnessOne ==
    /\ AnalyzeEnded
    /\ max_retries = 1
    /\ call_count = 1
    /\ ret.kind = "raise"
    /\ Classify(ret.exc) = "RateLimited"

C28_WitnessReturn ==
    /\ AnalyzeEnded
    /\ max_retries = 4
    /\ call_count = 4
    /\ ret.kind = "return"

\* a search_items call is in progress or was the last call
Searching ==
    \/ stack # <<>> /\ stack[1].op = "search_items"
    \/ stack = <<>> /\ db_ret.op = "search_items"

\* search_items ended because a get_item call of its hydration gave up on a
\* lock
HydrationLocked ==
    /\ DbRaised
    /\ db_ret.op = "search_items"
    /\ connects.get_items >= 1
    /\ db_ret.func_exc.cls = "ZoteroDatabaseLockError"

(* C29: retry budgets do not compound in search_items. The search query is  *)
(* never run again once a get_item call was made; a get_item call that      *)
(* gives up on a lock gave up after its own 6 attempts and its              *)
(* ZoteroDatabaseLockError ends search_items unchanged; and the connection  *)
(* attempts of one search_items call are at most 6 for the query plus 6 for *)
(* each get_item call.                                                      *)
C29_RetryBudgetsDoNotCompound ==
    Searching =>
        /\ (stack # <<>> /\ stack[1].pc # "hydrate") => connects.get_items = 0
        /\ \A k \in 1..Len(stack) : stack[k].calls <= DbMaxRetries + 1
        /\ HydrationLocked =>
              /\ db_ret.exc = db_ret.func_exc
              /\ connects.attempts >= db_ret.calls + DbMaxRetries + 1
        /\ connects.attempts <=
              (DbMaxRetries + 1) + (DbMaxRetries + 1) * connects.get_items

\* the first get_item call gives up after six attempts
C29_Witness ==
    /\ HydrationLocked
    /\ db_ret.calls = 1
    /\ connects.get_items = 1
    /\ connects.attempts = 7

\* the query met two locks, and the third get_item call gives up
C29_WitnessLater ==
    /\ HydrationLocked
    /\ db_ret.calls = 3
    /\ connects.get_items = 3
    /\ connects.attempts >= 11

\* a search that returned two items after four get_item calls
C29_WitnessFull ==
    /\ DbReturned
    /\ db_ret.op = "search_items"
    /\ connects.get_items = 4
    /\ Len(db_ret.value) = 2

=============================================================================
